---------------------------- MODULE Spec2Model ----------------------------
(***************************************************************************)
(* Portal box access controller: the session state machine of service.py   *)
(* (PortalBoxApplication), the hardware wrapper of portalbox/PortalBox.py   *)
(* and the directory client of Database.py.                                *)
(*                                                                         *)
(* The main process is modelled statement by statement: pc is the place of *)
(* the main thread in service.py, and every action is the code between two *)
(* such places.  The environment is the card on the reader, the button,    *)
(* the wall clock, the directory (which may fail on every call), the LED   *)
(* driver process (alive or gone) and the signals SIGINT/SIGTERM.          *)
(***************************************************************************)
EXTENDS Integers, Sequences, FiniteSets, TLC

(***************************************************************************)
(* Program constants.                                                      *)
(***************************************************************************)
INVALID_CARD == -1
SHUTDOWN_CARD == 1
PROXY_CARD == 2
TRAINING_CARD == 3
USER_CARD == 4

grace_seconds == 10
SECONDS_PER_MINUTE == 60
BUZZ_PERIOD == 20

\* values of MFRC522 register 20: 0x83 antenna on, 0x80 antenna off
ANTENNA_ON == 131
ANTENNA_OFF == 128

RED == "RED"
GREEN == "GREEN"
YELLOW == "YELLOW"
BLUE == "BLUE"
ORANGE == "ORANGE"
PURPLE == "PURPLE"
BLACK == "BLACK"
HANG_YELLOW == "HANG_YELLOW"

AUTH_COLOR == GREEN
PROXY_COLOR == ORANGE
TRAINER_COLOR == PURPLE

(***************************************************************************)
(* Bounds of the model.                                                    *)
(***************************************************************************)
\* cards 1..NumCards can be on the reader; cards beyond the directory's rows
\* are unknown to the directory
NumCards == 8
\* number of SIGINT/SIGTERM deliveries to the main process
MaxSignals == 2
\* the equipment row's timeout is 0..MaxTimeoutMinutes minutes
MaxTimeoutMinutes == 1
\* the wall clock is observed in steps of TickSeconds seconds
TickSeconds == 30
\* polls a grace loop makes before the clock is seen to advance (each poll
\* sleeps 0.1 s, so a grace period holds a bounded number of them)
MaxPolls == 2
\* the id of the equipment row of this box
DbEquipmentId == 7
\* rising edges of the button followed between two calls, and the age in
\* seconds up to which an edge is followed
MaxEdges == 2
MaxEdgeAge == 10
\* pixels of the LED strip (the box has LED_COUNT = 15), and the durations
\* and repeat counts of the effects commanded
LedCount == 3
MaxFlashes == 2
MaxRows == 2
MaxShowTicks == 5
WipeDurations == {50, 450}
BlinkDurations == {100, 400}

(***************************************************************************)
(* The directory: the rows of the cards table and what the other tables    *)
(* say about each card.  Kind is fixed per UID.                            *)
(***************************************************************************)
Directory ==
  << [kind |-> SHUTDOWN_CARD, authorized |-> FALSE, trainer |-> FALSE, valid |-> FALSE],
     [kind |-> PROXY_CARD,    authorized |-> FALSE, trainer |-> FALSE, valid |-> FALSE],
     [kind |-> TRAINING_CARD, authorized |-> FALSE, trainer |-> FALSE, valid |-> TRUE],
     [kind |-> USER_CARD,     authorized |-> TRUE,  trainer |-> TRUE,  valid |-> FALSE],
     [kind |-> USER_CARD,     authorized |-> TRUE,  trainer |-> FALSE, valid |-> FALSE],
     [kind |-> USER_CARD,     authorized |-> FALSE, trainer |-> TRUE,  valid |-> FALSE],
     [kind |-> TRAINING_CARD, authorized |-> FALSE, trainer |-> FALSE, valid |-> FALSE] >>

Cards == 1..NumCards
NO_CARD == -1
ReadResults == Cards \cup {NO_CARD}
RegVals == {ANTENNA_OFF, ANTENNA_ON}

HasRow(u) == u \in 1..Len(Directory)
CardKind(u) == IF HasRow(u) THEN Directory[u].kind ELSE INVALID_CARD
Authorized(u) == HasRow(u) /\ Directory[u].authorized
Trainer(u) == HasRow(u) /\ Directory[u].trainer
TrainingValid(u) == HasRow(u) /\ Directory[u].valid

VARIABLES
  pc,              \* place of the main thread in service.py
  hung,            \* "no", or the phase of the reader-hang loop
  running,         \* self.running
  exit_code,       \* -1 while the process lives, then its exit status
  signals,         \* signals delivered to the main process so far
  profile_id,      \* profile[0] in run()
  equipment_id,    \* self.equipment_id (0 is the initial False)
  timeout_period,  \* self.timeout_period, seconds
  power,           \* relay and interlock: TRUE is equipment power on
  buzzer,          \* buzzer output
  outlist20,       \* self.outlist[20], last value seen in register 20
  button_event,    \* GPIO edge-detected flag of the button pin
  authorized_uid, proxy_uid, training_mode, user_is_trainer, card_present,
  user_id,         \* parameter of run_session
  uid, previous_uid, card_type, auth_ok, color_now, loop_count,
  since_start,     \* time() - self.start_time, saturated
  since_grace,     \* time() - grace_start_time, saturated
  display,         \* last command the controller sent to the LED driver
  driver_alive,    \* the LED driver process still serves the queue
  shutdown_calls,  \* calls of log_shutdown_status, saturated at 2
  shutdown_card,   \* card_id of the last log_shutdown_status call (0: False)
  halt_count,      \* calls of os.system("shutdown -h now"), saturated at 2
  poll_db_error,   \* a directory call of the current Idle poll raised
  mail_error,      \* the mail attempt of the forgotten-card path raised
  call_log,        \* the log_access_attempt, log_access_completion, get_user and
                   \* Emailer.send calls made since the current Idle poll began
  rfid_attempts,   \* outcomes of the reader's two request/anti-collision tries
  rfid_result,     \* <<v>> once the scan of read_RFID_card returned v for them
  edge_ages,       \* ages in seconds of the rising edges that are pending or that
                   \* the latest has_button_been_pressed() consumed, oldest first
  button_result,   \* <<b>> once has_button_been_pressed() returned b
  led_strip,       \* the DotstarStrip object of the driver process
  led_link,        \* the command queue between controller and driver, where
                   \* each of them stands, and what the driver did last
  auth_check       \* what one call of is_user_authorized_for_equipment_type
                   \* finds in the directory, and <<b>> once it returned b

procVars == <<running, exit_code, signals, profile_id, equipment_id, timeout_period>>
hwVars == <<power, buzzer, outlist20, button_event>>
sessionVars == <<authorized_uid, proxy_uid, training_mode, user_is_trainer, card_present, user_id>>
localVars == <<uid, previous_uid, card_type, auth_ok, color_now, loop_count>>
timeVars == <<since_start, since_grace>>
ledVars == <<display, driver_alive>>
logVars == <<shutdown_calls, shutdown_card, halt_count, poll_db_error, mail_error>>

\* state of the components that are also checked on their own
sideVars ==
  <<rfid_attempts, rfid_result, edge_ages, button_result, led_strip, led_link, auth_check>>

vars == <<pc, hung, procVars, hwVars, sessionVars, localVars, timeVars, ledVars, logVars,
          call_log, sideVars>>

Sat2(n) == IF n < 2 THEN n + 1 ELSE 2

(***************************************************************************)
(* Directory client (Database.py).  ok = FALSE: the query raised           *)
(* mysql.connector.Error, which every method catches and answers with its  *)
(* initial value.                                                          *)
(***************************************************************************)
get_card_type_failopen(ok, u) == IF ok THEN CardKind(u) ELSE USER_CARD
get_card_type(ok, u) == IF ok THEN CardKind(u) ELSE INVALID_CARD

is_user_authorized_for_equipment_type(ok, u) == IF ok THEN Authorized(u) ELSE FALSE

is_training_card_for_equipment_type(ok, u) == IF ok THEN TrainingValid(u) ELSE FALSE

\* (name, email) of the user the card belongs to, here <<u, u>>; <<>> is the
\* None of fetchone() without a row, <<0, 0>> the (None, None) left by an error
get_user_NoRow(ok, u) == <<>>
get_user(ok, u) ==
  IF ~ok THEN <<0, 0>>
  ELSE IF CardKind(u) = USER_CARD THEN <<u, u>>
  ELSE <<>>

is_user_trainer(ok, u) == IF ok THEN Trainer(u) ELSE FALSE

(***************************************************************************)
(* Decisions of the session FSM (service.py).                              *)
(***************************************************************************)
\* wait_for_access_card: what a classified card leads to
AccessBranch_ProxyShutsDown(ct) ==
  IF ct = SHUTDOWN_CARD \/ ct = PROXY_CARD THEN "shutdown"
  ELSE IF ct = USER_CARD THEN "user"
  ELSE "unauthorized"
AccessBranch(ct) ==
  IF ct = SHUTDOWN_CARD THEN "shutdown"
  ELSE IF ct = USER_CARD THEN "user"
  ELSE "unauthorized"

\* wait_for_access_card: a user card starts a session when it is authorized
Admit_IgnoresAuthorization(ct, auth) == ct = USER_CARD
Admit(ct, auth) == ct = USER_CARD /\ auth

\* wait_for_authorized_card_removal: the card read is the session's card
CardMatches(u, auth, proxy) == -1 < u /\ (u = auth \/ u = proxy)

\* wait_for_authorized_card_removal: display colour of the running session
ColorNow_NoProxy(proxy, training) ==
  IF training THEN TRAINER_COLOR ELSE AUTH_COLOR
ColorNow_NoTraining(proxy, training) ==
  IF -1 < proxy THEN PROXY_COLOR ELSE AUTH_COLOR
ColorNow(proxy, training) ==
  IF -1 < proxy THEN PROXY_COLOR
  ELSE IF training THEN TRAINER_COLOR
  ELSE AUTH_COLOR

\* wait_for_authorized_card_removal: session time limit exceeded
TimedOut_NoPeriodTest(period, elapsed) == elapsed >= period
TimedOut(period, elapsed) == period > 0 /\ elapsed > period

\* wait_for_user_card_return: a card other than the authorized one is looked up
ProxyAllowed_Always(training) == TRUE
ProxyAllowed(training) == ~training

\* wait_for_user_card_return: a training card is checked against the directory
TrainingPrecheck_NoTrainerCheck(proxy, trainer) == ~(proxy > -1)
TrainingPrecheck(proxy, trainer) == ~(proxy > -1) /\ trainer

\* grace loops: the loop condition and the buzzer chirp
\* the card log_access_completion is called for: run_session's parameter,
\* not authorized_uid, which a training card replaces
CompletionCard_Authorized(user, authorized) == authorized
CompletionCard(user, authorized) == user

\* "-1 < uid": the read found a card
CardReadable_Never(u) == FALSE
CardReadable_Always(u) == TRUE
CardReadable(u) == -1 < u
\* "uid < 0": the read found no card
CardGone_Always(u) == TRUE
CardGone(u) == u < 0
InGrace(run, elapsed) == run /\ elapsed < grace_seconds
Buzz(count) == (count % BUZZ_PERIOD) = 0

\* a grace loop makes at most MaxPolls passes before its next test of the
\* loop condition fails
PollAllowed(count, run, elapsed) == count < MaxPolls \/ ~InGrace(run, elapsed)
NextCount(count) == IF count < MaxPolls THEN count + 1 ELSE count

\* PortalBox.read_RFID_card: register 20 went from 0x83 to 0x80
RfidHang_AntennaOff(prev, regval) == regval = ANTENNA_OFF

RfidHang(prev, regval) == prev = ANTENNA_ON /\ regval = ANTENNA_OFF

At(l) == pc = l /\ hung = "no"

\* the main thread leaves run(): the locals of its frames are gone, and the
\* clock and the button are not looked at again
Unwound ==
  /\ uid' = -1
  /\ previous_uid' = -1
  /\ card_type' = 0
  /\ auth_ok' = FALSE
  /\ color_now' = AUTH_COLOR
  /\ loop_count' = 0
  /\ user_id' = -1
  /\ since_start' = 0
  /\ since_grace' = 0
  /\ button_event' = FALSE
  /\ poll_db_error' = FALSE
  /\ mail_error' = FALSE
  /\ call_log' = <<>>

(***************************************************************************)
(* Initial state: PortalBox() and PortalBoxApplication() constructed,      *)
(* signal handlers installed, run() about to start.                        *)
(***************************************************************************)
(***************************************************************************)
(* The LED strip of the driver process (portalbox/display/DotstarDriver.py) *)
(* and the commands the controller sends it.  A colour is one of the       *)
(* strings above; a command is the parsed command line, with 0 for the     *)
(* parameters its kind does not have.                                      *)
(***************************************************************************)
\* no call of the authorization query is looked at
NoCheck ==
  [requires_training |-> FALSE, requires_payment |-> FALSE, payments |-> 0,
   authorizations |-> 0, failing |-> 0, returned |-> <<>>]

DEFAULT_BRIGHTNESS == 16
MAX_PULSE_BRIGHTNESS == 30
MIN_PULSE_BRIGHTNESS == 3
PULSE_BRIGHTNESS_STEP == 2
LOOP_MS == 100
DARKRED == "DARKRED"

LedColors == {BLACK, RED}
Pixels == 1..LedCount
Fill(value) == [i \in Pixels |-> value]

\* DotstarStrip.__init__; duration, repeats and wait_ms do not exist before a
\* blink or wipe command creates them, which 0 stands for
DotstarStrip ==
  [led_colors |-> Fill(BLACK), brightness |-> Fill(DEFAULT_BRIGHTNESS),
   is_pulsing |-> FALSE, pulse_rising |-> FALSE,
   is_blinking |-> FALSE, is_wiping |-> FALSE, wipe_color |-> BLACK,
   duration |-> 0, repeats |-> 0, wait_ms |-> 0, effect_time |-> 0]

NoCommand == [op |-> "none", color |-> BLACK, duration |-> 0, repeats |-> 0]
Commands ==
  [op : {"color", "pulse"}, color : LedColors, duration : {0}, repeats : {0}]
    \cup [op : {"wipe"}, color : LedColors, duration : WipeDurations, repeats : {0}]
    \cup [op : {"blink"}, color : LedColors, duration : BlinkDurations,
          repeats : 0..MaxFlashes]

\* everything but the outcomes the reader holds ready
InitBox ==
  /\ pc = "boot"
  /\ hung = "no"
  /\ running = FALSE
  /\ exit_code = -1
  /\ signals = 0
  /\ profile_id = -1
  /\ equipment_id = 0
  /\ timeout_period = 0
  /\ power = FALSE
  /\ buzzer = FALSE
  /\ outlist20 = 0
  /\ button_event = FALSE
  /\ authorized_uid = -1
  /\ proxy_uid = -1
  /\ training_mode = FALSE
  /\ user_is_trainer = FALSE
  /\ card_present = FALSE
  /\ user_id = -1
  /\ uid = -1
  /\ previous_uid = -1
  /\ card_type = 0
  /\ auth_ok = FALSE
  /\ color_now = AUTH_COLOR
  /\ loop_count = 0
  /\ since_start = 0
  /\ since_grace = 0
  /\ display = <<"none", BLACK>>
  /\ driver_alive = TRUE
  /\ shutdown_calls = 0
  /\ shutdown_card = -1
  /\ halt_count = 0
  /\ poll_db_error = FALSE
  /\ mail_error = FALSE
  /\ call_log = <<>>
  /\ rfid_result = <<>>
  /\ edge_ages = <<>>
  /\ button_result = <<>>
  /\ led_strip = DotstarStrip
  /\ led_link = [queue |-> <<>>, unfinished |-> 0, controller |-> "idle",
                 driver |-> "test", signalled |-> FALSE,
                 last |-> NoCommand, ticks |-> 0, index |-> -1,
                 sent |-> <<"none", BLACK>>]

Init == InitBox /\ rfid_attempts = <<>> /\ auth_check = NoCheck


(***************************************************************************)
(* PortalBox.read_RFID_card, first half: the three status registers are    *)
(* read before every scan.  When register 20 has gone from 0x83 to 0x80    *)
(* the call never returns.  One action serves every call site: ScanOf maps *)
(* the place of the call to the place where the scan's result is used.     *)
(***************************************************************************)
ScanOf ==
  [l \in {"wa_read", "ua_read", "ar_read", "cr_read", "tg_btn_read", "tg_check", "fc_read"} |->
     CASE l = "wa_read" -> "wa_scan"
       [] l = "ua_read" -> "ua_scan"
       [] l = "ar_read" -> "ar_scan"
       [] l = "cr_read" -> "cr_scan"
       [] l = "tg_btn_read" -> "tg_btn_scan"
       [] l = "tg_check" -> "tg_check_scan"
       [] l = "fc_read" -> "fc_scan"]

read_registers ==
  /\ hung = "no"
  /\ pc \in DOMAIN ScanOf
  /\ \E regval \in RegVals :
       /\ outlist20' = regval
       /\ IF RfidHang(outlist20, regval)
            THEN hung' = "beep" /\ pc' = pc
            ELSE hung' = hung /\ pc' = ScanOf[pc]
  /\ UNCHANGED <<procVars, power, buzzer, button_event, sessionVars, localVars,
                 timeVars, ledVars, logVars>>
  /\ UNCHANGED <<call_log, sideVars>>

\* the "while rfid_hang" loop: beep and red, then silence and yellow, forever
hang_loop ==
  /\ hung # "no"
  /\ pc \notin {"cleanup", "cleanup_blank", "exited"}
  /\ driver_alive
  /\ IF hung = "beep"
       THEN buzzer' = TRUE /\ display' = <<"color", RED>> /\ hung' = "pause"
       ELSE buzzer' = FALSE /\ display' = <<"color", HANG_YELLOW>> /\ hung' = "beep"
  /\ UNCHANGED <<pc, procVars, power, outlist20, button_event, sessionVars, localVars,
                 timeVars, driver_alive, logVars>>
  /\ UNCHANGED <<call_log, sideVars>>

(***************************************************************************)
(* PortalBoxApplication.run                                                *)
(***************************************************************************)
boot ==
  /\ At("boot")
  /\ driver_alive
  /\ display' = <<"wipe", RED>>
  /\ pc' = "boot_db"
  /\ UNCHANGED <<hung, procVars, hwVars, sessionVars, localVars, timeVars,
                 driver_alive, logVars>>
  /\ UNCHANGED <<call_log, sideVars>>

\* Database(settings) raises when the connection fails: sys.exit(1)
boot_db ==
  /\ At("boot_db")
  /\ \E ok \in BOOLEAN :
       IF ok
         THEN /\ driver_alive
              /\ display' = <<"wipe", ORANGE>>
              /\ running' = TRUE
              /\ pc' = "id_test"
              /\ UNCHANGED exit_code
         ELSE /\ exit_code' = 1
              /\ pc' = "cleanup"
              /\ UNCHANGED <<display, running>>
  /\ UNCHANGED <<hung, signals, profile_id, equipment_id, timeout_period, hwVars,
                 sessionVars, localVars, timeVars, driver_alive, logVars>>
  /\ UNCHANGED <<call_log, sideVars>>

id_test ==
  /\ At("id_test")
  /\ pc' = IF running /\ 0 > profile_id THEN "id_query" ELSE "id_done"
  /\ UNCHANGED <<hung, procVars, hwVars, sessionVars, localVars, timeVars, ledVars, logVars>>
  /\ UNCHANGED <<call_log, sideVars>>

\* get_equipment_profile: the row of this box, or (-1, ...) without a row or
\* on a database error
id_query ==
  /\ At("id_query")
  /\ \E found \in BOOLEAN : profile_id' = IF found THEN DbEquipmentId ELSE -1
  /\ pc' = "id_test"
  /\ UNCHANGED <<hung, running, exit_code, signals, equipment_id, timeout_period, hwVars,
                 sessionVars, localVars, timeVars, ledVars, logVars>>
  /\ UNCHANGED <<call_log, sideVars>>

\* id_done with the "if 0 < profile[0]" test left out
id_done_AlwaysRuns ==
  /\ At("id_done")
  /\ equipment_id' = profile_id
  /\ \E minutes \in 0..MaxTimeoutMinutes : timeout_period' = minutes
  /\ pc' = "id_green"
  /\ UNCHANGED <<hung, running, exit_code, signals, profile_id, hwVars, sessionVars,
                 localVars, timeVars, ledVars, logVars>>
  /\ UNCHANGED <<call_log, sideVars>>

id_done ==
  /\ At("id_done")
  /\ IF 0 < profile_id
       THEN /\ equipment_id' = profile_id
            /\ \E minutes \in 0..MaxTimeoutMinutes : timeout_period' = minutes
            /\ pc' = "id_green"
            /\ UNCHANGED exit_code
       ELSE /\ exit_code' = 1
            /\ pc' = "cleanup"
            /\ UNCHANGED <<equipment_id, timeout_period>>
  /\ UNCHANGED <<hung, running, signals, profile_id, hwVars, sessionVars, localVars,
                 timeVars, ledVars, logVars>>
  /\ UNCHANGED <<call_log, sideVars>>

id_green ==
  /\ At("id_green")
  /\ driver_alive
  /\ display' = <<"wipe", GREEN>>
  /\ timeout_period' = timeout_period * SECONDS_PER_MINUTE
  /\ proxy_uid' = -1
  /\ training_mode' = FALSE
  /\ pc' = "wa_enter"
  /\ UNCHANGED <<hung, running, exit_code, signals, profile_id, equipment_id, hwVars,
                 authorized_uid, user_is_trainer, card_present, user_id, localVars,
                 timeVars, driver_alive, logVars>>
  /\ UNCHANGED <<call_log, sideVars>>

(***************************************************************************)
(* PortalBoxApplication.wait_for_access_card (Idle)                        *)
(***************************************************************************)
\* sleep_display on entry, and after a card has been handled
wa_sleep_display ==
  /\ (At("wa_enter") \/ At("wa_post"))
  /\ driver_alive
  /\ display' = <<"pulse", BLUE>>
  /\ pc' = "wa_test"
  /\ UNCHANGED <<hung, procVars, hwVars, sessionVars, localVars, timeVars,
                 driver_alive, logVars>>
  /\ UNCHANGED <<call_log, sideVars>>

\* "while self.running"; when it ends run() returns and __main__ cleans up
wa_test ==
  /\ At("wa_test")
  /\ IF running
       THEN pc' = "wa_read" /\ UNCHANGED exit_code
       ELSE pc' = "cleanup" /\ exit_code' = 0
  /\ poll_db_error' = FALSE
  /\ mail_error' = FALSE
  /\ call_log' = <<>>
  /\ uid' = -1
  /\ card_type' = 0
  /\ auth_ok' = FALSE
  /\ UNCHANGED <<hung, running, signals, profile_id, equipment_id, timeout_period, hwVars,
                 sessionVars, previous_uid, color_now, loop_count, timeVars, ledVars,
                 shutdown_calls, shutdown_card, halt_count>>
  /\ UNCHANGED sideVars

wa_scan ==
  /\ At("wa_scan")
  /\ \E u \in ReadResults :
       /\ uid' = u
       /\ pc' = IF -1 < u THEN "wa_classify" ELSE "wa_test"
  /\ UNCHANGED <<hung, procVars, hwVars, sessionVars, previous_uid, card_type, auth_ok,
                 color_now, loop_count, timeVars, ledVars, logVars>>
  /\ UNCHANGED <<call_log, sideVars>>

wa_classify ==
  /\ At("wa_classify")
  /\ \E ok \in BOOLEAN :
       /\ card_type' = get_card_type(ok, uid)
       /\ poll_db_error' = ~ok
  /\ auth_ok' = FALSE
  /\ pc' = CASE AccessBranch(card_type') = "shutdown" -> "wa_sd_log"
             [] AccessBranch(card_type') = "user" -> "wa_auth"
             [] OTHER -> "ua_log"
  /\ UNCHANGED <<hung, procVars, hwVars, sessionVars, uid, previous_uid, color_now,
                 loop_count, timeVars, ledVars, shutdown_calls, shutdown_card, halt_count,
                 mail_error>>
  /\ UNCHANGED <<call_log, sideVars>>

\* Shutdown card: log_shutdown_status(equipment_id, uid), blank the display,
\* tell the OS to halt; the loop then goes on
wa_sd_log ==
  /\ At("wa_sd_log")
  /\ shutdown_calls' = Sat2(shutdown_calls)
  /\ shutdown_card' = uid
  /\ pc' = "wa_sd_blank"
  /\ UNCHANGED <<hung, procVars, hwVars, sessionVars, localVars, timeVars, ledVars,
                 halt_count, poll_db_error, mail_error>>
  /\ UNCHANGED <<call_log, sideVars>>

wa_sd_blank ==
  /\ At("wa_sd_blank")
  /\ driver_alive
  /\ display' = <<"color", BLACK>>
  /\ pc' = "wa_sd_halt"
  /\ UNCHANGED <<hung, procVars, hwVars, sessionVars, localVars, timeVars,
                 driver_alive, logVars>>
  /\ UNCHANGED <<call_log, sideVars>>

wa_sd_halt ==
  /\ At("wa_sd_halt")
  /\ halt_count' = Sat2(halt_count)
  /\ pc' = "wa_post"
  /\ UNCHANGED <<hung, procVars, hwVars, sessionVars, localVars, timeVars, ledVars,
                 shutdown_calls, shutdown_card, poll_db_error, mail_error>>
  /\ UNCHANGED <<call_log, sideVars>>

wa_auth ==
  /\ At("wa_auth")
  /\ \E ok \in BOOLEAN :
       /\ auth_ok' = is_user_authorized_for_equipment_type(ok, uid)
       /\ poll_db_error' = (poll_db_error \/ ~ok)
  /\ IF Admit(card_type, auth_ok')
       THEN pc' = "rs_init" /\ user_id' = uid
       ELSE pc' = "ua_log" /\ UNCHANGED user_id
  /\ UNCHANGED <<hung, procVars, hwVars, authorized_uid, proxy_uid, training_mode,
                 user_is_trainer, card_present, uid, previous_uid, card_type, color_now,
                 loop_count, timeVars, ledVars, shutdown_calls, shutdown_card, halt_count,
                 mail_error>>
  /\ UNCHANGED <<call_log, sideVars>>

(***************************************************************************)
(* PortalBoxApplication.wait_for_unauthorized_card_removal                 *)
(***************************************************************************)
\* log_access_attempt(uid, equipment_id, False)
ua_log ==
  /\ At("ua_log")
  /\ pc' = "ua_flash"
  /\ call_log' = Append(call_log, <<"attempt", uid, equipment_id, FALSE>>)
  /\ UNCHANGED <<hung, procVars, hwVars, sessionVars, localVars, timeVars, ledVars, logVars>>
  /\ UNCHANGED sideVars

ua_flash ==
  /\ At("ua_flash")
  /\ driver_alive
  /\ display' = <<"blink", RED>>
  /\ pc' = "ua_test"
  /\ UNCHANGED <<hung, procVars, hwVars, sessionVars, localVars, timeVars,
                 driver_alive, logVars>>
  /\ UNCHANGED <<call_log, sideVars>>

ua_test ==
  /\ At("ua_test")
  /\ pc' = IF running THEN "ua_read" ELSE "wa_post"
  /\ UNCHANGED <<hung, procVars, hwVars, sessionVars, localVars, timeVars, ledVars, logVars>>
  /\ UNCHANGED <<call_log, sideVars>>

\* uid = read_RFID_card(); leave the loop when the card is gone.  Which card
\* a read found is never looked at, so uid keeps its value while one is read.
ua_scan ==
  /\ At("ua_scan")
  /\ \E u \in ReadResults : uid' = IF CardGone(u) THEN u ELSE uid
  /\ pc' = IF CardGone(uid') THEN "wa_post" ELSE "ua_test"
  /\ UNCHANGED <<hung, procVars, hwVars, sessionVars, previous_uid, card_type, auth_ok,
                 color_now, loop_count, timeVars, ledVars, logVars>>
  /\ UNCHANGED <<call_log, sideVars>>


(***************************************************************************)
(* PortalBoxApplication.run_session                                        *)
(***************************************************************************)
rs_init ==
  /\ At("rs_init")
  /\ authorized_uid' = user_id
  /\ proxy_uid' = -1
  /\ training_mode' = FALSE
  /\ user_is_trainer' = FALSE
  /\ pc' = "rs_green"
  /\ UNCHANGED <<hung, procVars, hwVars, card_present, user_id, localVars, timeVars,
                 ledVars, logVars>>
  /\ UNCHANGED <<call_log, sideVars>>

rs_green ==
  /\ At("rs_green")
  /\ driver_alive
  /\ display' = <<"color", AUTH_COLOR>>
  /\ pc' = "rs_power"
  /\ UNCHANGED <<hung, procVars, hwVars, sessionVars, localVars, timeVars,
                 driver_alive, logVars>>
  /\ UNCHANGED <<call_log, sideVars>>

\* set_buzzer(True); set_equipment_power_on(True)
rs_power ==
  /\ At("rs_power")
  /\ buzzer' = TRUE
  /\ power' = TRUE
  /\ pc' = "rs_log"
  /\ UNCHANGED <<hung, procVars, outlist20, button_event, sessionVars, localVars,
                 timeVars, ledVars, logVars>>
  /\ UNCHANGED <<call_log, sideVars>>

\* sleep(0.05); log_access_attempt(user_id, equipment_id, True); set_buzzer(False)
rs_log ==
  /\ At("rs_log")
  /\ buzzer' = FALSE
  /\ call_log' = Append(call_log, <<"attempt", user_id, equipment_id, TRUE>>)
  /\ pc' = "rs_green2"
  /\ UNCHANGED <<hung, procVars, power, outlist20, button_event, sessionVars, localVars,
                 timeVars, ledVars, logVars>>
  /\ UNCHANGED sideVars

rs_green2 ==
  /\ At("rs_green2")
  /\ driver_alive
  /\ display' = <<"color", AUTH_COLOR>>
  /\ pc' = "rs_trainer"
  /\ UNCHANGED <<hung, procVars, hwVars, sessionVars, localVars, timeVars,
                 driver_alive, logVars>>
  /\ UNCHANGED <<call_log, sideVars>>

\* user_is_trainer = is_user_trainer(user_id); start_time = time() with a limit
rs_trainer ==
  /\ At("rs_trainer")
  /\ \E ok \in BOOLEAN : user_is_trainer' = is_user_trainer(ok, user_id)
  /\ since_start' = IF 0 < timeout_period THEN 0 ELSE since_start
  /\ pc' = "ar_init"
  /\ UNCHANGED <<hung, procVars, hwVars, authorized_uid, proxy_uid, training_mode,
                 card_present, user_id, localVars, since_grace, ledVars, logVars>>
  /\ UNCHANGED <<call_log, sideVars>>

\* after wait_for_authorized_card_removal: set_equipment_power_on(False)
rs_end ==
  /\ At("rs_end")
  /\ power' = FALSE
  /\ pc' = "rs_complete"
  /\ UNCHANGED <<hung, procVars, buzzer, outlist20, button_event, sessionVars, localVars,
                 timeVars, ledVars, logVars>>
  /\ UNCHANGED <<call_log, sideVars>>

\* log_access_completion(user_id, equipment_id); authorized_uid = -1
rs_complete ==
  /\ At("rs_complete")
  /\ call_log' = Append(call_log, <<"completion", CompletionCard(user_id, authorized_uid),
                                     equipment_id>>)
  /\ authorized_uid' = -1
  /\ user_id' = -1
  /\ since_start' = 0
  /\ pc' = "wa_post"
  /\ UNCHANGED <<hung, procVars, hwVars, proxy_uid, training_mode, user_is_trainer,
                 card_present, localVars, since_grace, ledVars, logVars>>
  /\ UNCHANGED sideVars

(***************************************************************************)
(* PortalBoxApplication.wait_for_authorized_card_removal (RunSession)      *)
(***************************************************************************)
ar_init ==
  /\ At("ar_init")
  /\ card_present' = TRUE
  /\ proxy_uid' = -1
  /\ color_now' = IF training_mode THEN TRAINER_COLOR ELSE AUTH_COLOR
  /\ pc' = "ar_test"
  /\ UNCHANGED <<hung, procVars, hwVars, authorized_uid, training_mode, user_is_trainer,
                 user_id, uid, previous_uid, card_type, auth_ok, loop_count, timeVars,
                 ledVars, logVars>>
  /\ UNCHANGED <<call_log, sideVars>>

ar_test ==
  /\ At("ar_test")
  /\ pc' = IF running /\ card_present THEN "ar_timeout" ELSE "ar_exit"
  /\ UNCHANGED <<hung, procVars, hwVars, sessionVars, localVars, timeVars, ledVars, logVars>>
  /\ UNCHANGED <<call_log, sideVars>>

ar_timeout ==
  /\ At("ar_timeout")
  /\ pc' = IF TimedOut(timeout_period, since_start) THEN "tg_init" ELSE "ar_read"
  /\ UNCHANGED <<hung, procVars, hwVars, sessionVars, localVars, timeVars, ledVars, logVars>>
  /\ UNCHANGED <<call_log, sideVars>>

ar_scan ==
  /\ At("ar_scan")
  /\ \E u \in ReadResults :
       pc' = IF CardMatches(u, authorized_uid, proxy_uid) THEN "ar_color" ELSE "cr_init"
  /\ UNCHANGED <<hung, procVars, hwVars, sessionVars, localVars, timeVars, ledVars, logVars>>
  /\ UNCHANGED <<call_log, sideVars>>

\* color_now by proxy and training mode; set_display_color(color_now); sleep
ar_color ==
  /\ At("ar_color")
  /\ driver_alive
  /\ color_now' = ColorNow(proxy_uid, training_mode)
  /\ display' = <<"color", color_now'>>
  /\ pc' = "ar_test"
  /\ UNCHANGED <<hung, procVars, hwVars, sessionVars, uid, previous_uid, card_type,
                 auth_ok, loop_count, timeVars, driver_alive, logVars>>
  /\ UNCHANGED <<call_log, sideVars>>

\* after the loop: set_display_color(color_now), return to run_session
ar_exit ==
  /\ At("ar_exit")
  /\ driver_alive
  /\ display' = <<"color", color_now>>
  /\ pc' = "rs_end"
  /\ UNCHANGED <<hung, procVars, hwVars, sessionVars, localVars, timeVars,
                 driver_alive, logVars>>
  /\ UNCHANGED <<call_log, sideVars>>

(***************************************************************************)
(* PortalBoxApplication.wait_for_user_card_return (GraceRemoval)           *)
(***************************************************************************)
cr_init ==
  /\ At("cr_init")
  /\ card_present' = FALSE
  /\ proxy_uid' = -1
  /\ since_grace' = 0
  /\ card_type' = 0
  /\ pc' = "cr_flash"
  /\ UNCHANGED <<hung, procVars, hwVars, authorized_uid, training_mode, user_is_trainer,
                 user_id, uid, previous_uid, auth_ok, color_now, loop_count, since_start,
                 ledVars, logVars>>
  /\ UNCHANGED <<call_log, sideVars>>

\* flash_display(YELLOW, ...); has_button_been_pressed() clears pending events
cr_flash_KeepsPress ==
  /\ At("cr_flash")
  /\ driver_alive
  /\ display' = <<"blink", YELLOW>>
  /\ previous_uid' = -1
  /\ loop_count' = 0
  /\ pc' = "cr_test"
  /\ UNCHANGED <<hung, procVars, hwVars, sessionVars, uid, card_type,
                 auth_ok, color_now, timeVars, driver_alive, logVars>>
  /\ UNCHANGED <<call_log, sideVars>>

cr_flash ==
  /\ At("cr_flash")
  /\ driver_alive
  /\ display' = <<"blink", YELLOW>>
  /\ button_event' = FALSE
  /\ previous_uid' = -1
  /\ loop_count' = 0
  /\ pc' = "cr_test"
  /\ UNCHANGED <<hung, procVars, power, buzzer, outlist20, sessionVars, uid, card_type,
                 auth_ok, color_now, timeVars, driver_alive, logVars>>
  /\ UNCHANGED <<call_log, sideVars>>

cr_test ==
  /\ At("cr_test")
  /\ pc' = IF InGrace(running, since_grace) THEN "cr_button" ELSE "cr_exit"
  /\ UNCHANGED <<hung, procVars, hwVars, sessionVars, localVars, timeVars, ledVars, logVars>>
  /\ UNCHANGED <<call_log, sideVars>>

cr_button_CardFirst ==
  /\ At("cr_button")
  /\ button_event' = FALSE
  /\ pc' = "cr_read"
  /\ UNCHANGED <<hung, procVars, power, buzzer, outlist20, sessionVars, localVars,
                 timeVars, ledVars, logVars>>
  /\ UNCHANGED <<call_log, sideVars>>

cr_button ==
  /\ At("cr_button")
  /\ button_event' = FALSE
  /\ pc' = IF button_event THEN "cr_exit" ELSE "cr_read"
  /\ UNCHANGED <<hung, procVars, power, buzzer, outlist20, sessionVars, localVars,
                 timeVars, ledVars, logVars>>
  /\ UNCHANGED <<call_log, sideVars>>

cr_scan ==
  /\ At("cr_scan")
  /\ \E u \in ReadResults :
       /\ uid' = u
       /\ IF u > -1 /\ u # previous_uid
            THEN /\ previous_uid' = u
                 /\ IF u = authorized_uid
                      THEN card_present' = TRUE /\ pc' = "cr_exit"
                      ELSE /\ UNCHANGED card_present
                           /\ pc' = IF ProxyAllowed(training_mode)
                                      THEN "cr_classify" ELSE "cr_buzz"
            ELSE /\ UNCHANGED <<previous_uid, card_present>>
                 /\ pc' = "cr_buzz"
  /\ UNCHANGED <<hung, procVars, hwVars, authorized_uid, proxy_uid, training_mode,
                 user_is_trainer, user_id, card_type, auth_ok, color_now, loop_count,
                 timeVars, ledVars, logVars>>
  /\ UNCHANGED <<call_log, sideVars>>

cr_classify ==
  /\ At("cr_classify")
  /\ \E ok \in BOOLEAN : card_type' = get_card_type(ok, uid)
  /\ IF card_type' = PROXY_CARD
       THEN /\ card_present' = TRUE
            /\ proxy_uid' = uid
            /\ user_is_trainer' = FALSE
            /\ pc' = "cr_exit"
       ELSE /\ UNCHANGED <<card_present, proxy_uid, user_is_trainer>>
            /\ pc' = IF card_type' = TRAINING_CARD
                          /\ TrainingPrecheck(proxy_uid, user_is_trainer)
                       THEN "cr_training" ELSE "cr_buzz"
  /\ UNCHANGED <<hung, procVars, hwVars, authorized_uid, training_mode, user_id, uid,
                 previous_uid, auth_ok, color_now, loop_count, timeVars, ledVars, logVars>>
  /\ UNCHANGED <<call_log, sideVars>>

\* is_training_card_for_equipment_type; if valid log_access_attempt(uid, .., True)
\* and start training mode
cr_training ==
  /\ At("cr_training")
  /\ \E ok \in BOOLEAN :
       IF is_training_card_for_equipment_type(ok, uid)
         THEN /\ call_log' = Append(call_log, <<"attempt", uid, equipment_id, TRUE>>)
              /\ card_present' = TRUE
              /\ training_mode' = TRUE
              /\ user_is_trainer' = FALSE
              /\ authorized_uid' = uid
              /\ pc' = "cr_exit"
         ELSE /\ UNCHANGED <<call_log, card_present, training_mode, user_is_trainer,
                            authorized_uid>>
              /\ pc' = "cr_buzz"
  /\ UNCHANGED <<hung, procVars, hwVars, proxy_uid, user_id, localVars, timeVars,
                 ledVars, logVars>>
  /\ UNCHANGED sideVars

\* the buzzer chirps every BUZZ_PERIOD-th pass; sleep(0.1).  After MaxPolls
\* passes the next pass is one that sees the grace period over.
cr_buzz ==
  /\ At("cr_buzz")
  /\ PollAllowed(loop_count, running, since_grace)
  /\ buzzer' = Buzz(loop_count)
  /\ loop_count' = NextCount(loop_count)
  /\ uid' = -1
  /\ card_type' = 0
  /\ pc' = "cr_test"
  /\ UNCHANGED <<hung, procVars, power, outlist20, button_event, sessionVars,
                 previous_uid, auth_ok, color_now, timeVars, ledVars, logVars>>
  /\ UNCHANGED <<call_log, sideVars>>

\* return to wait_for_authorized_card_removal, line 327
cr_exit ==
  /\ At("cr_exit")
  /\ since_grace' = 0
  /\ loop_count' = 0
  /\ previous_uid' = -1
  /\ uid' = -1
  /\ card_type' = 0
  /\ pc' = "ar_color"
  /\ UNCHANGED <<hung, procVars, hwVars, sessionVars, auth_ok, color_now, since_start,
                 ledVars, logVars>>
  /\ UNCHANGED <<call_log, sideVars>>


(***************************************************************************)
(* PortalBoxApplication.wait_for_timeout_grace_period_to_expire            *)
(* (GraceTimeout, ForgottenCard).  The caller's lines 303-316 run when the *)
(* function returns: with card_present the timeout restarts and the loop   *)
(* goes on to its card scan, without it the loop is left.                  *)
(***************************************************************************)
\* has_button_been_pressed() clears pending events; orange; grace_start_time
tg_init ==
  /\ At("tg_init")
  /\ driver_alive
  /\ button_event' = FALSE
  /\ display' = <<"blink", ORANGE>>
  /\ since_grace' = 0
  /\ loop_count' = 0
  /\ pc' = "tg_test"
  /\ UNCHANGED <<hung, procVars, power, buzzer, outlist20, sessionVars, uid, previous_uid,
                 card_type, auth_ok, color_now, since_start, driver_alive, logVars>>
  /\ UNCHANGED <<call_log, sideVars>>

tg_test ==
  /\ At("tg_test")
  /\ pc' = IF InGrace(running, since_grace) THEN "tg_button" ELSE "tg_expired"
  /\ UNCHANGED <<hung, procVars, hwVars, sessionVars, localVars, timeVars, ledVars, logVars>>
  /\ UNCHANGED <<call_log, sideVars>>

tg_button ==
  /\ At("tg_button")
  /\ button_event' = FALSE
  /\ IF button_event
       THEN /\ pc' = "tg_btn_read"
            /\ UNCHANGED <<buzzer, loop_count>>
       ELSE /\ PollAllowed(loop_count, running, since_grace)
            /\ buzzer' = Buzz(loop_count)
            /\ loop_count' = NextCount(loop_count)
            /\ pc' = "tg_test"
  /\ UNCHANGED <<hung, procVars, power, outlist20, sessionVars, uid, previous_uid,
                 card_type, auth_ok, color_now, timeVars, ledVars, logVars>>
  /\ UNCHANGED <<call_log, sideVars>>

\* button pressed: uid = read_RFID_card()
tg_btn_scan ==
  /\ At("tg_btn_scan")
  /\ \E u \in ReadResults : uid' = u
  /\ pc' = "tg_btn_done"
  /\ UNCHANGED <<hung, procVars, hwVars, sessionVars, previous_uid, card_type, auth_ok,
                 color_now, loop_count, timeVars, ledVars, logVars>>
  /\ UNCHANGED <<call_log, sideVars>>

\* with a card the session is renewed, without it it ends; the function
\* returns and the caller restarts the timeout or leaves its loop
tg_btn_done ==
  /\ At("tg_btn_done")
  /\ IF CardReadable(uid)
       THEN /\ since_start' = 0
            /\ color_now' = ColorNow(proxy_uid, training_mode)
            /\ pc' = "ar_read"
            /\ UNCHANGED card_present
       ELSE /\ card_present' = FALSE
            /\ pc' = "ar_exit"
            /\ UNCHANGED <<since_start, color_now>>
  /\ uid' = -1
  /\ since_grace' = 0
  /\ loop_count' = 0
  /\ UNCHANGED <<hung, procVars, hwVars, authorized_uid, proxy_uid, training_mode,
                 user_is_trainer, user_id, previous_uid, card_type, auth_ok, ledVars,
                 logVars>>
  /\ UNCHANGED <<call_log, sideVars>>

\* grace period expired: set_buzzer(False); set_equipment_power_on(False)
tg_expired ==
  /\ At("tg_expired")
  /\ buzzer' = FALSE
  /\ power' = FALSE
  /\ since_grace' = 0
  /\ loop_count' = 0
  /\ pc' = "tg_check"
  /\ UNCHANGED <<hung, procVars, outlist20, button_event, sessionVars, uid, previous_uid,
                 card_type, auth_ok, color_now, since_start, ledVars, logVars>>
  /\ UNCHANGED <<call_log, sideVars>>

\* was the card forgotten?  uid = read_RFID_card()
tg_check_scan ==
  /\ At("tg_check_scan")
  /\ \E u \in ReadResults : uid' = u
  /\ pc' = "tg_check_done"
  /\ UNCHANGED <<hung, procVars, hwVars, sessionVars, previous_uid, card_type, auth_ok,
                 color_now, loop_count, timeVars, ledVars, logVars>>
  /\ UNCHANGED <<call_log, sideVars>>

\* a card still in the reader was forgotten; without one the session ends
\* (the uid read is not looked at again)
tg_check_done ==
  /\ At("tg_check_done")
  /\ IF CardReadable(uid)
       THEN pc' = "fc_wipe" /\ UNCHANGED card_present
       ELSE pc' = "ar_exit" /\ card_present' = FALSE
  /\ uid' = -1
  /\ UNCHANGED <<hung, procVars, hwVars, authorized_uid, proxy_uid, training_mode,
                 user_is_trainer, user_id, previous_uid, card_type, auth_ok, color_now,
                 loop_count, timeVars, ledVars, logVars>>
  /\ UNCHANGED <<call_log, sideVars>>

fc_wipe ==
  /\ At("fc_wipe")
  /\ driver_alive
  /\ display' = <<"wipe", BLUE>>
  /\ pc' = "fc_mail"
  /\ UNCHANGED <<hung, procVars, hwVars, sessionVars, localVars, timeVars,
                 driver_alive, logVars>>
  /\ UNCHANGED <<call_log, sideVars>>

\* "except Exception as e: logging.error(...)": the statement after the try
\* is reached whether or not the mail attempt raised
AfterMail_Propagates(error) == IF error THEN "cleanup" ELSE "fc_red"

AfterMail(error) == "fc_red"

\* user = get_user(authorized_uid); emailer.send(user[1], ...) inside a try:
\* without a row user[1] raises before the call, send itself may raise, and
\* any failure is only logged
fc_mail ==
  /\ At("fc_mail")
  /\ \E ok, raised \in BOOLEAN :
       LET user == get_user(ok, authorized_uid)
       IN  /\ call_log' = call_log \o <<<<"get_user", authorized_uid>>>>
                             \o (IF Len(user) = 2 THEN <<<<"send", user[2]>>>> ELSE <<>>)
           /\ mail_error' = IF Len(user) = 2 THEN raised ELSE TRUE
  /\ pc' = AfterMail(mail_error')
  /\ UNCHANGED <<hung, procVars, hwVars, sessionVars, localVars, timeVars, ledVars,
                 shutdown_calls, shutdown_card, halt_count, poll_db_error>>
  /\ UNCHANGED sideVars

fc_red ==
  /\ At("fc_red")
  /\ driver_alive
  /\ display' = <<"color", RED>>
  /\ pc' = "fc_test"
  /\ UNCHANGED <<hung, procVars, hwVars, sessionVars, localVars, timeVars,
                 driver_alive, logVars>>
  /\ UNCHANGED <<call_log, sideVars>>

\* "while self.running and self.card_present"; then back in the caller
fc_test ==
  /\ At("fc_test")
  /\ IF running /\ card_present
       THEN pc' = "fc_read" /\ UNCHANGED <<since_start, color_now>>
       ELSE IF card_present
         THEN /\ since_start' = 0
              /\ color_now' = ColorNow(proxy_uid, training_mode)
              /\ pc' = "ar_read"
         ELSE pc' = "ar_exit" /\ UNCHANGED <<since_start, color_now>>
  /\ UNCHANGED <<hung, procVars, hwVars, sessionVars, uid, previous_uid, card_type,
                 auth_ok, loop_count, since_grace, ledVars, logVars>>
  /\ UNCHANGED <<call_log, sideVars>>

fc_scan ==
  /\ At("fc_scan")
  /\ \E u \in ReadResults : card_present' = IF CardGone(u) THEN FALSE ELSE card_present
  /\ pc' = "fc_test"
  /\ UNCHANGED <<hung, procVars, hwVars, authorized_uid, proxy_uid, training_mode,
                 user_is_trainer, user_id, localVars, timeVars, ledVars, logVars>>
  /\ UNCHANGED <<call_log, sideVars>>

(***************************************************************************)
(* PortalBox.cleanup, from __main__ after run() or from __del__ when the   *)
(* process ends by sys.exit or an exception: buzzer off, display blanked.  *)
(* The relay and the interlock are not written.                            *)
(***************************************************************************)
cleanup ==
  /\ pc = "cleanup"
  /\ buzzer' = FALSE
  /\ pc' = "cleanup_blank"
  /\ UNCHANGED <<hung, procVars, power, outlist20, button_event, sessionVars, localVars,
                 timeVars, ledVars, logVars>>
  /\ UNCHANGED <<call_log, sideVars>>

cleanup_blank ==
  /\ pc = "cleanup_blank"
  /\ driver_alive
  /\ display' = <<"color", BLACK>>
  /\ pc' = "exited"
  /\ UNCHANGED <<hung, procVars, hwVars, sessionVars, localVars, timeVars,
                 driver_alive, logVars>>
  /\ UNCHANGED <<call_log, sideVars>>

(***************************************************************************)
(* Environment                                                             *)
(***************************************************************************)
Live == pc \notin {"cleanup", "cleanup_blank", "exited"}

\* PortalBoxApplication.handle_interupt and exit, run by the main thread
\* between two statements: power off; when running, log the shutdown and
\* clear running; otherwise sys.exit(), which unwinds the main thread
handle_interupt ==
  /\ Live
  /\ signals < MaxSignals
  /\ signals' = signals + 1
  /\ power' = FALSE
  /\ IF running
       THEN /\ running' = FALSE
            /\ IF equipment_id # 0
                 THEN /\ shutdown_calls' = Sat2(shutdown_calls)
                      /\ shutdown_card' = 0
                 ELSE UNCHANGED <<shutdown_calls, shutdown_card>>
            /\ UNCHANGED <<pc, hung, exit_code>>
            /\ UNCHANGED <<localVars, timeVars, user_id, button_event, poll_db_error,
                           mail_error, call_log>>
       ELSE /\ pc' = "cleanup"
            /\ hung' = "no"
            /\ exit_code' = 0
            /\ Unwound
            /\ UNCHANGED <<running, shutdown_calls, shutdown_card>>
  /\ UNCHANGED <<profile_id, equipment_id, timeout_period, buzzer, outlist20,
                 authorized_uid, proxy_uid, training_mode, user_is_trainer, card_present,
                 ledVars, halt_count>>
  /\ UNCHANGED sideVars

\* DotstarStrip.catch_signal: the driver process leaves its loop and ends
driver_signalled ==
  /\ pc # "exited"
  /\ driver_alive
  /\ driver_alive' = FALSE
  /\ UNCHANGED <<pc, hung, procVars, hwVars, sessionVars, localVars, timeVars, display,
                 logVars>>
  /\ UNCHANGED <<call_log, sideVars>>

\* rising edge on the button pin; the FSM looks at the event flag only in
\* the grace loops and clears it when it enters them, so presses are
\* tracked from RunSession on
ButtonWatched ==
  pc \in {"ar_test", "ar_timeout", "ar_read", "ar_scan", "ar_color", "cr_init", "cr_flash",
          "cr_test", "cr_button", "cr_read", "cr_scan", "cr_classify", "cr_training",
          "cr_buzz", "tg_init", "tg_test", "tg_button"}

press_button ==
  /\ ButtonWatched
  /\ ~button_event
  /\ button_event' = TRUE
  /\ UNCHANGED <<pc, hung, procVars, power, buzzer, outlist20, sessionVars, localVars,
                 timeVars, ledVars, logVars>>
  /\ UNCHANGED <<call_log, sideVars>>

\* the wall clock, seen through the two differences the FSM computes; they
\* are tracked while the FSM can read them
StartTimeLive ==
  /\ 0 < timeout_period
  /\ pc \in {"ar_init", "ar_test", "ar_timeout", "ar_read", "ar_scan", "ar_color",
             "cr_init", "cr_flash", "cr_test", "cr_button", "cr_read", "cr_scan",
             "cr_classify", "cr_training", "cr_buzz", "cr_exit"}
GraceTimeLive ==
  pc \in {"cr_flash", "cr_test", "cr_button", "cr_read", "cr_scan", "cr_classify",
          "cr_training", "cr_buzz", "tg_test", "tg_button"}
Later(elapsed, cap) == IF elapsed + TickSeconds < cap THEN elapsed + TickSeconds ELSE cap

tick ==
  /\ hung = "no"
  /\ since_start' = IF StartTimeLive
                      THEN Later(since_start, timeout_period + TickSeconds)
                      ELSE since_start
  /\ since_grace' = IF GraceTimeLive THEN Later(since_grace, grace_seconds) ELSE since_grace
  /\ <<since_start', since_grace'>> # <<since_start, since_grace>>
  /\ UNCHANGED <<pc, hung, procVars, hwVars, sessionVars, localVars, ledVars, logVars>>
  /\ UNCHANGED <<call_log, sideVars>>

\* an exception no handler catches, raised by a call the session makes
\* (hardware I/O, directory, display) while the equipment is in use:
\* __main__ has no try/finally, the process ends through __del__
raise_exception ==
  /\ hung = "no"
  /\ pc \in {"ar_read", "ar_scan", "ar_color", "cr_read", "cr_scan", "cr_classify",
             "cr_training", "tg_btn_read", "tg_btn_scan", "rs_log", "rs_trainer"}
  /\ pc' = "cleanup"
  /\ exit_code' = 1
  /\ Unwound
  /\ UNCHANGED <<hung, running, signals, profile_id, equipment_id, timeout_period, power,
                 buzzer, outlist20, authorized_uid, proxy_uid, training_mode,
                 user_is_trainer, card_present, ledVars, shutdown_calls, shutdown_card,
                 halt_count>>
  /\ UNCHANGED sideVars

Fsm ==
  \/ read_registers \/ hang_loop
  \/ boot \/ boot_db \/ id_test \/ id_query \/ id_done \/ id_green
  \/ wa_sleep_display \/ wa_test \/ wa_scan \/ wa_classify
  \/ wa_sd_log \/ wa_sd_blank \/ wa_sd_halt \/ wa_auth
  \/ ua_log \/ ua_flash \/ ua_test \/ ua_scan
  \/ rs_init \/ rs_green \/ rs_power \/ rs_log \/ rs_green2 \/ rs_trainer
  \/ rs_end \/ rs_complete
  \/ ar_init \/ ar_test \/ ar_timeout \/ ar_scan \/ ar_color \/ ar_exit
  \/ cr_init \/ cr_flash \/ cr_test \/ cr_button \/ cr_scan \/ cr_classify
  \/ cr_training \/ cr_buzz \/ cr_exit
  \/ tg_init \/ tg_test \/ tg_button \/ tg_btn_scan \/ tg_btn_done \/ tg_expired
  \/ tg_check_scan \/ tg_check_done
  \/ fc_wipe \/ fc_mail \/ fc_red \/ fc_test \/ fc_scan
  \/ cleanup \/ cleanup_blank

Env == handle_interupt \/ driver_signalled \/ press_button \/ tick

Next == Fsm \/ Env

Spec == Init /\ [][Next]_vars

\* the main thread runs on whenever it is not blocked in a call
SpecFair == Init /\ [][Next]_vars /\ WF_vars(Fsm)

\* the same program with uncaught exceptions
NextExc == Next \/ raise_exception

SpecExc == Init /\ [][NextExc]_vars

(***************************************************************************)
(* PortalBox.read_RFID_card, second half, on its own: the scan.  The       *)
(* reader is asked twice; an attempt is what MFRC522_Request and           *)
(* MFRC522_Anticoll answer: the two statuses (TRUE for MI_OK) and the UID   *)
(* bytes.                                                                  *)
(***************************************************************************)
SCAN_ATTEMPTS == 2
UID_BYTES == 4
\* UID bytes tried: Python integers do not wrap, so a byte above 127 packs
\* like any other; 127 is the largest whose packing fits the checker's integers
ByteVals == {0, 1, 127}
AttemptOutcomes ==
  [request : BOOLEAN, anticoll : BOOLEAN, uid : [1..UID_BYTES -> ByteVals]]

\* uid[i] << (8 * (3 - i)) for i = 0..3, summed
RECURSIVE PackUid(_, _)
PackUid(bytes, i) ==
  IF i > UID_BYTES - 1 THEN 0
  ELSE bytes[i + 1] * 2^(8 * (3 - i)) + PackUid(bytes, i + 1)

\* "if result > 0: return result"
ValidCardId_OrZero(result) == result >= 0
ValidCardId(result) == result > 0

RECURSIVE ScanResult(_, _)
ScanResult(attempts, k) ==
  IF k > SCAN_ATTEMPTS THEN NO_CARD
  ELSE IF /\ attempts[k].request
          /\ attempts[k].anticoll
          /\ ValidCardId(PackUid(attempts[k].uid, 0))
         THEN PackUid(attempts[k].uid, 0)
         ELSE ScanResult(attempts, k + 1)

read_RFID_card ==
  /\ rfid_result = <<>>
  /\ rfid_attempts # <<>>
  /\ rfid_result' = <<ScanResult(rfid_attempts, 1)>>
  /\ UNCHANGED <<pc, hung, procVars, hwVars, sessionVars, localVars, timeVars, ledVars,
                 logVars, call_log, rfid_attempts, edge_ages, button_result,
                 led_strip, led_link, auth_check>>

InitRfid ==
  /\ InitBox
  /\ rfid_attempts \in [1..SCAN_ATTEMPTS -> AttemptOutcomes]
  /\ auth_check = NoCheck

SpecRfid == InitRfid /\ [][read_RFID_card]_vars

(***************************************************************************)
(* The LED driver, on its own: DotstarDriver.process_command and the loop  *)
(* of strip_driver, fed through the JoinableQueue by DotstarController.    *)
(***************************************************************************)
\* "round to nearest loop duration", at least one; integer math
RoundToLoop_Floor(ms) ==
  LET rounded == (ms \div LOOP_MS) * LOOP_MS
  IN  IF rounded < LOOP_MS THEN LOOP_MS ELSE rounded

RoundToLoop(ms) ==
  LET rounded == ((ms + (LOOP_MS \div 2)) \div LOOP_MS) * LOOP_MS
  IN  IF rounded < LOOP_MS THEN LOOP_MS ELSE rounded

\* the statements of the blink branch up to the division that sets wait_ms
BlinkCommand(command, strip) ==
  LET begun == [strip EXCEPT !.is_wiping = FALSE, !.is_pulsing = FALSE,
                             !.duration = command.duration,
                             !.repeats = command.repeats,
                             !.led_colors = Fill(command.color),
                             !.is_blinking = TRUE,
                             !.effect_time = 0,
                             !.brightness = Fill(MIN_PULSE_BRIGHTNESS)]
  IN  IF command.repeats = 0
        THEN [strip |-> begun, raised |-> TRUE]
        ELSE LET wait == RoundToLoop(command.duration \div (2 * command.repeats))
             IN  [strip |-> [begun EXCEPT !.wait_ms = wait,
                                          !.duration = wait * 2 * command.repeats],
                  raised |-> FALSE]

WipeCommand(command, strip) ==
  LET wait == RoundToLoop(command.duration \div LedCount)
  IN  [strip EXCEPT !.is_blinking = FALSE, !.is_pulsing = FALSE,
                    !.wipe_color = command.color,
                    !.is_wiping = TRUE,
                    !.brightness = Fill(DEFAULT_BRIGHTNESS),
                    !.effect_time = 0,
                    !.wait_ms = wait,
                    !.duration = wait * LedCount,
                    !.led_colors = [strip.led_colors EXCEPT ![1] = command.color]]

ColorCommand_AbortsAll(command, strip) ==
  [strip EXCEPT !.is_wiping = FALSE, !.is_blinking = FALSE, !.is_pulsing = FALSE,
                !.brightness = Fill(DEFAULT_BRIGHTNESS),
                !.led_colors = Fill(command.color)]

ColorCommand(command, strip) ==
  LET black == command.color = BLACK
      blinking == strip.is_blinking /\ ~black
      pulsing == strip.is_pulsing /\ ~black
  IN  [strip EXCEPT !.is_wiping = FALSE,
                    !.is_blinking = blinking,
                    !.is_pulsing = pulsing,
                    !.brightness = IF ~blinking /\ ~pulsing
                                     THEN Fill(DEFAULT_BRIGHTNESS) ELSE strip.brightness,
                    !.led_colors = Fill(command.color)]

PulseCommand_KeepsBlink(command, strip) ==
  [strip EXCEPT !.is_wiping = FALSE,
                !.led_colors = Fill(command.color),
                !.brightness = IF strip.is_pulsing
                                 THEN strip.brightness ELSE Fill(DEFAULT_BRIGHTNESS),
                !.is_pulsing = TRUE,
                !.pulse_rising = strip.is_pulsing /\ strip.pulse_rising]

PulseCommand(command, strip) ==
  [strip EXCEPT !.is_blinking = FALSE, !.is_wiping = FALSE,
                !.led_colors = Fill(command.color),
                !.brightness = IF strip.is_pulsing
                                 THEN strip.brightness ELSE Fill(DEFAULT_BRIGHTNESS),
                !.is_pulsing = TRUE,
                !.pulse_rising = strip.is_pulsing /\ strip.pulse_rising]

\* the strip after the command, and whether processing raised
process_command(command, strip) ==
  CASE command.op = "blink" -> BlinkCommand(command, strip)
    [] command.op = "wipe" -> [strip |-> WipeCommand(command, strip), raised |-> FALSE]
    [] command.op = "color" -> [strip |-> ColorCommand(command, strip), raised |-> FALSE]
    [] command.op = "pulse" -> [strip |-> PulseCommand(command, strip), raised |-> FALSE]

\* the three parts of the except branch of the loop, in their order
BlinkStep_BrightFirst(strip) ==
  IF ~strip.is_blinking THEN strip
  ELSE IF strip.effect_time < strip.duration
    THEN [strip EXCEPT !.brightness =
                         IF (strip.effect_time \div strip.wait_ms) % 2 = 0
                           THEN Fill(MAX_PULSE_BRIGHTNESS)
                           ELSE Fill(MIN_PULSE_BRIGHTNESS),
                       !.effect_time = strip.effect_time + LOOP_MS]
    ELSE [strip EXCEPT !.is_blinking = FALSE]

BlinkStep(strip) ==
  IF ~strip.is_blinking THEN strip
  ELSE IF strip.effect_time < strip.duration
    THEN [strip EXCEPT !.brightness =
                         IF (strip.effect_time \div strip.wait_ms) % 2 = 0
                           THEN Fill(MIN_PULSE_BRIGHTNESS)
                           ELSE Fill(MAX_PULSE_BRIGHTNESS),
                       !.effect_time = strip.effect_time + LOOP_MS]
    ELSE [strip EXCEPT !.is_blinking = FALSE]

WipeIndex_PerLoop(strip) == strip.effect_time \div LOOP_MS

WipeIndex(strip) == strip.effect_time \div strip.wait_ms

WipeStep(strip) ==
  IF ~strip.is_wiping THEN strip
  ELSE IF strip.effect_time < strip.duration
    THEN [strip EXCEPT !.led_colors[WipeIndex(strip) + 1] = strip.wipe_color,
                       !.effect_time = strip.effect_time + LOOP_MS]
    ELSE [strip EXCEPT !.is_wiping = FALSE,
                       !.led_colors = Fill(strip.wipe_color)]

PulseStep_Unclamped(strip) ==
  IF ~strip.is_pulsing THEN strip
  ELSE LET brightness == strip.brightness[1] + (IF strip.pulse_rising
                                                  THEN PULSE_BRIGHTNESS_STEP
                                                  ELSE 0 - PULSE_BRIGHTNESS_STEP)
       IN  [strip EXCEPT !.brightness = Fill(brightness),
                         !.pulse_rising = IF brightness >= MAX_PULSE_BRIGHTNESS THEN FALSE
                                          ELSE IF brightness <= MIN_PULSE_BRIGHTNESS THEN TRUE
                                          ELSE strip.pulse_rising]

PulseStep(strip) ==
  IF ~strip.is_pulsing THEN strip
  ELSE IF strip.pulse_rising
    THEN LET brightness == strip.brightness[1] + PULSE_BRIGHTNESS_STEP
         IN  IF brightness >= MAX_PULSE_BRIGHTNESS
               THEN [strip EXCEPT !.pulse_rising = FALSE,
                                  !.brightness = Fill(MAX_PULSE_BRIGHTNESS)]
               ELSE [strip EXCEPT !.brightness = Fill(brightness)]
    ELSE LET brightness == strip.brightness[1] - PULSE_BRIGHTNESS_STEP
         IN  IF brightness <= MIN_PULSE_BRIGHTNESS
               THEN [strip EXCEPT !.pulse_rising = TRUE,
                                  !.brightness = Fill(MIN_PULSE_BRIGHTNESS)]
               ELSE [strip EXCEPT !.brightness = Fill(brightness)]

EffectStep(strip) == PulseStep(WipeStep(BlinkStep(strip)))

\* the blink part reads wait_ms, which only a command that got as far as
\* setting it has created: without it the except branch raises itself and
\* the driver process ends
StepRaises(strip) ==
  strip.is_blinking /\ strip.effect_time < strip.duration /\ strip.wait_ms = 0

\* after the loop: dim red, no effect
Stopped(strip) ==
  [strip EXCEPT !.brightness = Fill(MIN_PULSE_BRIGHTNESS),
                !.led_colors = Fill(DARKRED),
                !.is_pulsing = FALSE, !.is_blinking = FALSE, !.is_wiping = FALSE]

LedRest == <<pc, hung, procVars, hwVars, sessionVars, localVars, timeVars, ledVars,
             logVars, call_log, rfid_attempts, rfid_result, edge_ages, button_result,
             auth_check>>

\* DotstarController._transmit then _receive: put the command, wait in join()
led_transmit ==
  /\ led_link.controller = "idle"
  /\ \E command \in Commands :
       led_link' = [led_link EXCEPT !.queue = Append(led_link.queue, command),
                                    !.unfinished = led_link.unfinished + 1,
                                    !.controller = "joining"]
  /\ UNCHANGED <<led_strip, LedRest>>

\* join() returns once every task put was marked done
led_receive ==
  /\ led_link.controller = "joining"
  /\ led_link.unfinished = 0
  /\ led_link' = [led_link EXCEPT !.controller = "idle"]
  /\ UNCHANGED <<led_strip, LedRest>>

\* "while not led_strip.signalled"
led_test ==
  /\ led_link.driver = "test"
  /\ IF led_link.signalled
       THEN /\ led_strip' = Stopped(led_strip)
            /\ led_link' = [led_link EXCEPT !.driver = "stopped"]
       ELSE /\ led_link' = [led_link EXCEPT !.driver = "wait"]
            /\ UNCHANGED led_strip
  /\ UNCHANGED LedRest

\* get() returns a command: process_command, then task_done(); when
\* processing raises, the bare except runs the effect step instead
led_command ==
  /\ led_link.driver = "wait"
  /\ led_link.queue # <<>>
  /\ LET command == Head(led_link.queue)
         done == process_command(command, led_strip)
         taken == [led_link EXCEPT !.queue = Tail(led_link.queue),
                                   !.last = command,
                                   !.ticks = 0,
                                   !.index = IF command.op = "wipe" THEN 0 ELSE -1]
     IN  IF ~done.raised
           THEN /\ led_strip' = done.strip
                /\ led_link' = [taken EXCEPT !.unfinished = led_link.unfinished - 1,
                                             !.driver = "test"]
           ELSE IF StepRaises(done.strip)
             THEN /\ led_strip' = done.strip
                  /\ led_link' = [taken EXCEPT !.driver = "crashed"]
             ELSE /\ led_strip' = EffectStep(done.strip)
                  /\ led_link' = [taken EXCEPT !.driver = "test"]
  /\ UNCHANGED LedRest

\* get() times out: one step of the effect in progress, then show()
led_timeout ==
  /\ led_link.driver = "wait"
  /\ led_link.queue = <<>>
  /\ IF StepRaises(led_strip)
       THEN /\ led_link' = [led_link EXCEPT !.driver = "crashed"]
            /\ UNCHANGED led_strip
       ELSE /\ led_strip' = EffectStep(led_strip)
            /\ led_link' =
                 [led_link EXCEPT
                    !.driver = "test",
                    !.ticks = IF led_strip.is_wiping \/ led_strip.is_blinking
                                THEN led_link.ticks + 1 ELSE led_link.ticks,
                    !.index = IF led_strip.is_wiping
                                 /\ led_strip.effect_time < led_strip.duration
                                THEN WipeIndex(led_strip) ELSE led_link.index]
  /\ UNCHANGED LedRest

\* DotstarStrip.catch_signal, on SIGTERM or SIGINT
catch_signal ==
  /\ led_link.driver \in {"test", "wait"}
  /\ ~led_link.signalled
  /\ led_link' = [led_link EXCEPT !.signalled = TRUE]
  /\ UNCHANGED <<led_strip, LedRest>>

(***************************************************************************)
(* The FSM and the LED driver together.  Every display call of the FSM     *)
(* goes through DotstarController: the command is put on the queue and the *)
(* FSM goes on when join() has returned.  display is the call the FSM made *)
(* last and led_link.sent the call last handed to the controller; a call   *)
(* that repeats the one before it is not handed over again, which leaves   *)
(* the effect flags of the driver as they are.  The FSM is followed from   *)
(* its start through Idle, sessions and GraceRemoval while the clock       *)
(* stands: no timeout, no end of a grace period, no button press, and no   *)
(* signal to either process.                                               *)
(***************************************************************************)
\* the command string the controller builds for a display call of service.py
DisplayCommand(call) ==
  [op |-> call[1], color |-> call[2],
   duration |-> CASE call[1] = "wipe" -> (IF call[2] = BLUE THEN 50 ELSE 10)
                  [] call[1] = "blink" -> (IF call[2] = YELLOW THEN 200 ELSE 100)
                  [] OTHER -> 0,
   repeats |-> CASE call[1] = "blink" /\ call[2] = YELLOW -> grace_seconds * 5000
                 [] call[1] = "blink" /\ call[2] = RED -> 1000
                 [] call[1] = "blink" -> 1
                 [] OTHER -> 0]

\* flash_display puts its blink command a second time after the first join
show_display ==
  /\ led_link.controller = "idle"
  /\ led_link.sent # display
  /\ LET command == DisplayCommand(display)
         puts == IF command.op = "blink" THEN <<command, command>> ELSE <<command>>
     IN  led_link' = [led_link EXCEPT !.queue = led_link.queue \o puts,
                                      !.unfinished = led_link.unfinished + Len(puts),
                                      !.controller = "joining",
                                      !.sent = display]
  /\ UNCHANGED <<led_strip, LedRest>>

\* every display call made so far has returned
Drained == led_link.controller = "idle" /\ led_link.sent = display

\* the passes of the driver loop are followed for the first MaxShowTicks
\* passes of a wipe or a blink (the blink of GraceRemoval has 100000)
ShowTick ==
  /\ (led_strip.is_wiping \/ led_strip.is_blinking)
       => led_strip.effect_time < MaxShowTicks * LOOP_MS
  /\ led_timeout

SessionSteps ==
  \/ read_registers \/ hang_loop
  \/ boot \/ boot_db \/ id_test \/ id_query \/ id_done \/ id_green
  \/ wa_sleep_display \/ wa_test \/ wa_scan \/ wa_classify
  \/ wa_sd_log \/ wa_sd_blank \/ wa_sd_halt \/ wa_auth
  \/ ua_log \/ ua_flash \/ ua_test \/ ua_scan
  \/ rs_init \/ rs_green \/ rs_power \/ rs_log \/ rs_green2 \/ rs_trainer
  \/ rs_end \/ rs_complete
  \/ ar_init \/ ar_test \/ ar_timeout \/ ar_scan \/ ar_color \/ ar_exit
  \/ cr_init \/ cr_flash \/ cr_test \/ cr_button \/ cr_scan \/ cr_classify
  \/ cr_training \/ cr_buzz \/ cr_exit

NextShow ==
  \/ Drained /\ SessionSteps
  \/ show_display \/ led_receive \/ led_test \/ led_command \/ ShowTick

SpecShow == Init /\ [][NextShow]_vars

NextLed ==
  led_transmit \/ led_receive \/ led_test \/ led_command \/ led_timeout \/ catch_signal

SpecLed == Init /\ [][NextLed]_vars

(***************************************************************************)
(* Database.is_user_authorized_for_equipment_type, on its own, over what   *)
(* its queries find: the two flags of the equipment type's row, the number *)
(* of payment rows of the card's user, the number of authorization rows of *)
(* that user for the type, and which of the queries it executes raises     *)
(* mysql.connector.Error (failing = 0: none).                              *)
(***************************************************************************)
Raised == [result |-> FALSE, raised |-> TRUE]
Returned(value) == [result |-> value, raised |-> FALSE]

is_authorized_PaymentSuffices(training, payment, payments, authorizations, failing) ==
  IF failing = 1 THEN Raised
  ELSE IF payment
    THEN IF failing = 2 THEN Raised ELSE Returned(0 < payments)
  ELSE IF training
    THEN IF failing = 2 THEN Raised ELSE Returned(0 < authorizations)
  ELSE Returned(TRUE)

\* is_authorized starts False and is only set after the last query of a
\* branch, so an error in any query leaves it False
is_authorized(requires_training, requires_payment, payments, authorizations, failing) ==
  IF failing = 1 THEN Raised
  ELSE IF requires_training /\ requires_payment
    THEN IF failing = 2 THEN Raised
         ELSE IF 0 < payments
           THEN IF failing = 3 THEN Raised ELSE Returned(0 < authorizations)
           ELSE Returned(FALSE)
  ELSE IF requires_training /\ ~requires_payment
    THEN IF failing = 2 THEN Raised ELSE Returned(0 < authorizations)
  ELSE IF ~requires_training /\ requires_payment
    THEN IF failing = 2 THEN Raised ELSE Returned(0 < payments)
  ELSE Returned(TRUE)

PolicyInputs ==
  [requires_training : BOOLEAN, requires_payment : BOOLEAN, payments : 0..MaxRows,
   authorizations : 0..MaxRows, failing : 0..3, returned : {<<>>}]

check_authorization ==
  /\ auth_check.returned = <<>>
  /\ auth_check' =
       [auth_check EXCEPT !.returned =
          <<is_authorized(auth_check.requires_training, auth_check.requires_payment,
                          auth_check.payments, auth_check.authorizations,
                          auth_check.failing)>>]
  /\ UNCHANGED <<pc, hung, procVars, hwVars, sessionVars, localVars, timeVars, ledVars,
                 logVars, call_log, rfid_attempts, rfid_result, edge_ages, button_result,
                 led_strip, led_link>>

InitPolicy == InitBox /\ rfid_attempts = <<>> /\ auth_check \in PolicyInputs

SpecPolicy == InitPolicy /\ [][check_authorization]_vars

(***************************************************************************)
(* The button, on its own.  __init__ arms GPIO.add_event_detect(pin,       *)
(* RISING); the library latches that an edge was seen, in button_event,    *)
(* and GPIO.event_detected(pin) returns the latch and clears it.  The ages *)
(* of the edges are kept beside the latch to tell what a call reported.    *)
(***************************************************************************)
event_detected_Never(latched) == FALSE
event_detected(latched) == latched

\* the button goes down
rising_edge ==
  /\ ~button_event \/ Len(edge_ages) < MaxEdges
  /\ button_event' = TRUE
  /\ edge_ages' = IF button_event THEN Append(edge_ages, 0) ELSE <<0>>
  /\ UNCHANGED <<pc, hung, procVars, power, buzzer, outlist20, sessionVars, localVars,
                 timeVars, ledVars, logVars, call_log, rfid_attempts, rfid_result,
                 button_result, led_strip, led_link, auth_check>>

\* a second passes with edges pending
edge_ageing ==
  /\ button_event
  /\ \E i \in DOMAIN edge_ages : edge_ages[i] < MaxEdgeAge
  /\ edge_ages' = [i \in DOMAIN edge_ages |->
                     IF edge_ages[i] < MaxEdgeAge THEN edge_ages[i] + 1 ELSE MaxEdgeAge]
  /\ UNCHANGED <<pc, hung, procVars, hwVars, sessionVars, localVars, timeVars, ledVars,
                 logVars, call_log, rfid_attempts, rfid_result, button_result,
                 led_strip, led_link, auth_check>>

\* PortalBox.has_button_been_pressed()
has_button_been_pressed ==
  /\ button_result' = <<event_detected(button_event)>>
  /\ button_event' = FALSE
  /\ edge_ages' = IF button_event THEN edge_ages ELSE <<>>
  /\ UNCHANGED <<pc, hung, procVars, power, buzzer, outlist20, sessionVars, localVars,
                 timeVars, ledVars, logVars, call_log, rfid_attempts, rfid_result,
                 led_strip, led_link, auth_check>>

NextButton == rising_edge \/ edge_ageing \/ has_button_been_pressed

SpecButton == Init /\ [][NextButton]_vars

(***************************************************************************)
(* The states of the session FSM, read off the place of the main thread.   *)
(* Shutdown is the state after the signal handler has run exit() or while  *)
(* the shutdown card is handled or the process ends.  "Leaving" is the     *)
(* return path of a session, from the end of its loop to the power-off in  *)
(* run_session.                                                            *)
(***************************************************************************)
ExitPcs == {"cleanup", "cleanup_blank", "exited"}
BootPcs == {"boot", "boot_db"}
IdentifyPcs == {"id_test", "id_query", "id_done", "id_green"}
ShutdownCardPcs == {"wa_sd_log", "wa_sd_blank", "wa_sd_halt"}
IdlePcs == {"wa_enter", "wa_post", "wa_test", "wa_read", "wa_scan", "wa_classify", "wa_auth",
            "rs_init", "rs_green", "rs_power", "rs_complete"}
UnauthorizedRemovalPcs == {"ua_log", "ua_flash", "ua_test", "ua_read", "ua_scan"}
RunSessionPcs == {"rs_log", "rs_green2", "rs_trainer", "ar_init", "ar_test", "ar_timeout",
                  "ar_read", "ar_scan", "ar_color"}
LeavingPcs == {"ar_exit", "rs_end"}
GraceRemovalPcs == {"cr_init", "cr_flash", "cr_test", "cr_button", "cr_read", "cr_scan",
                    "cr_classify", "cr_training", "cr_buzz", "cr_exit"}
GraceTimeoutPcs == {"tg_init", "tg_test", "tg_button", "tg_btn_read", "tg_btn_scan",
                    "tg_btn_done", "tg_expired"}
ForgottenCardPcs == {"tg_check", "tg_check_scan", "tg_check_done", "fc_wipe", "fc_mail",
                     "fc_red", "fc_test", "fc_read", "fc_scan"}

State ==
  IF pc \in ExitPcs THEN "Shutdown"
  ELSE IF pc \in BootPcs THEN "Boot"
  ELSE IF ~running THEN "Shutdown"
  ELSE IF pc \in IdentifyPcs THEN "Identify"
  ELSE IF pc \in ShutdownCardPcs THEN "Shutdown"
  ELSE IF pc \in IdlePcs THEN "Idle"
  ELSE IF pc \in UnauthorizedRemovalPcs THEN "UnauthorizedRemoval"
  ELSE IF pc \in RunSessionPcs THEN "RunSession"
  ELSE IF pc \in GraceRemovalPcs THEN "GraceRemoval"
  ELSE IF pc \in GraceTimeoutPcs THEN "GraceTimeout"
  ELSE IF pc \in ForgottenCardPcs THEN "ForgottenCard"
  ELSE "Leaving"

PoweredStates == {"RunSession", "GraceRemoval", "GraceTimeout"}
UnpoweredStates == {"Boot", "Identify", "Idle", "ForgottenCard", "UnauthorizedRemoval",
                    "Shutdown"}

(***************************************************************************)
(* Claims                                                                  *)
(***************************************************************************)

\* C1: in every reachable state the equipment power is on if and only if the
\* FSM is in RunSession, GraceRemoval or GraceTimeout, and off in Idle,
\* ForgottenCard, UnauthorizedRemoval and Shutdown (the return path of a
\* session, where the power is about to be switched off, is left open).
C1_PowerIffSessionState ==
  /\ State \in PoweredStates => power
  /\ State \in UnpoweredStates => ~power
  /\ power => State \in PoweredStates \cup {"Leaving"}

\* C2: the power is switched on only by run_session's power-on step, and
\* only for the card of the current Idle poll, which the directory
\* classified as a User card and answered as authorized in that poll.
C2_PowerOnOnlyForAuthorizedUser ==
  [][(power' /\ ~power) =>
       /\ pc = "rs_power"
       /\ card_type = USER_CARD /\ CardKind(uid) = USER_CARD
       /\ auth_ok /\ Authorized(uid)
       /\ ~poll_db_error
       /\ authorized_uid = uid]_vars

\* C2 witness: a session has just switched the power on
C2_PowerSwitchedOn == pc = "rs_log" /\ power /\ running /\ authorized_uid = uid

\* C3: when a directory call of an Idle poll raised a database error, the
\* call returned its default (card type -1, or not authorized), the FSM
\* went to UnauthorizedRemoval, and the power is off for that presentation.
C3_DirectoryErrorFailsSafe ==
  /\ [](poll_db_error =>
          /\ card_type = INVALID_CARD \/ (card_type = USER_CARD /\ ~auth_ok)
          /\ ~power
          /\ pc \in UnauthorizedRemovalPcs \cup {"wa_post", "wa_test"})
  /\ [][(poll_db_error' /\ ~poll_db_error) => pc' = "ua_log"]_vars

\* C3 witness: the authorization query failed for a card the directory
\* would have authorized, and the card is being flashed red
C3_AuthorizedCardRefusedOnError ==
  poll_db_error /\ pc = "ua_flash" /\ card_type = USER_CARD /\ Authorized(uid)

\* C4: whenever the process has ended, the relay and the interlock are in
\* the power-off state.
C4_PowerOffAtExit == pc = "exited" => ~power

\* C5 as stated: a card the directory has just classified as a Shutdown card
\* is handled as one in whatever state it was read: the FSM is on the
\* shutdown path (log with the card id, blank, halt) or has requested the
\* halt.
C5_ShutdownCardHandledInAnyState ==
  card_type = SHUTDOWN_CARD => (pc \in ShutdownCardPcs \/ halt_count > 0)

\* C5 amended: a Shutdown card is handled only when it is read in Idle:
\* there the power is off, log_shutdown_status is called with the card's
\* uid, the display is blanked and then the OS halt is requested; a card
\* classified as Shutdown in GraceRemoval is passed over like an unknown
\* card, with the power, the log and the session left as they are.
C5_ShutdownCardHandledInIdle ==
  /\ [](pc \in ShutdownCardPcs =>
          card_type = SHUTDOWN_CARD /\ CardKind(uid) = SHUTDOWN_CARD /\ ~power)
  /\ [](pc = "wa_sd_halt" => display = <<"color", BLACK>>)
  /\ [][(pc = "wa_sd_log" /\ pc' = "wa_sd_blank") =>
          (shutdown_card' = uid /\ shutdown_calls' = Sat2(shutdown_calls))]_vars
  /\ [][(halt_count' # halt_count) => (pc = "wa_sd_halt" /\ ~power')]_vars
  /\ [][(pc = "cr_classify" /\ card_type' = SHUTDOWN_CARD) =>
          (pc' = "cr_buzz" /\ UNCHANGED <<power, shutdown_calls, shutdown_card,
                                          halt_count, sessionVars>>)]_vars

\* C5 witness: the shutdown card was read in Idle, logged with its uid and
\* the halt was requested
C5_HaltRequestedForCard ==
  /\ pc = "wa_post" /\ halt_count = 1 /\ shutdown_calls = 1
  /\ shutdown_card = uid /\ CardKind(uid) = SHUTDOWN_CARD /\ ~power

\* C6: once the shutdown card has been handled in Idle (the OS halt has been
\* requested) the FSM scans and classifies no further card, and the
\* shutdown is logged and requested once.
C6_ShutdownIsTerminal ==
  halt_count > 0 =>
    /\ pc \notin {ScanOf[l] : l \in DOMAIN ScanOf}
    /\ pc \notin {"wa_classify", "cr_classify"}
    /\ halt_count = 1

\* C7: once SIGINT/SIGTERM has reached the FSM process in or after the
\* Identify loop (and the LED driver process, before or after it, or not
\* yet), the FSM leaves its loops and the process ends with the power off;
\* the handler, run with the equipment id known, switches the power off and
\* calls log_shutdown_status without a card id.
C7_SignalledProcessTerminates ==
  /\ (signals > 0 /\ equipment_id # 0) ~> (pc = "exited" /\ ~power)
  /\ [][(signals' # signals /\ running /\ equipment_id # 0) =>
          (~power' /\ shutdown_card' = 0 /\ shutdown_calls' = Sat2(shutdown_calls))]_vars

\* C8: whenever proxy_uid is set to a card's uid, that happens in
\* GraceRemoval's classification of a Proxy card and training_mode is false
\* then and stays false.
C8_ProxyOnlyOutsideTraining ==
  [][(proxy_uid' # proxy_uid /\ proxy_uid' > -1) =>
       /\ pc = "cr_classify"
       /\ proxy_uid' = uid /\ card_type' = PROXY_CARD
       /\ ~training_mode /\ ~training_mode']_vars

\* C8 witness: a proxy card has just been accepted
C8_ProxyAccepted ==
  pc = "cr_exit" /\ proxy_uid > -1 /\ CardKind(proxy_uid) = PROXY_CARD /\ ~training_mode

\* C9: a card read in the grace period of a session and classified as Proxy
\* resumes the session: card_present, proxy_uid is that card's uid,
\* training_mode false, authorized_uid and the power unchanged (on, in a live
\* session); and back in RunSession with a proxy the colour commanded is
\* PROXY_COLOR, orange.
C9_ProxyResumesSession ==
  /\ [][(pc = "cr_classify" /\ card_type' = PROXY_CARD) =>
          /\ pc' = "cr_exit"
          /\ card_present'
          /\ proxy_uid' = uid
          /\ ~training_mode'
          /\ authorized_uid' = authorized_uid
          /\ power' = power
          /\ running => power']_vars
  /\ []((pc = "ar_test" /\ proxy_uid > -1) =>
          (display = <<"color", ORANGE>> /\ color_now = ORANGE /\ card_present))

\* C9 witness: the session runs on a proxy card with the power on
C9_SessionRunsOnProxy ==
  /\ pc = "ar_test" /\ running /\ power /\ proxy_uid > -1
  /\ CardKind(proxy_uid) = PROXY_CARD /\ authorized_uid = user_id
  /\ display = <<"color", ORANGE>>

\* C10: whenever training_mode is set, proxy_uid is -1, user_is_trainer is
\* true and the holder of the authorized card is a trainer in the
\* directory, and the card is a Training card the directory confirmed for
\* this equipment type.
C10_TrainingOnlyForTrainer ==
  [][(training_mode' /\ ~training_mode) =>
       /\ pc = "cr_training"
       /\ proxy_uid = -1
       /\ user_is_trainer /\ Trainer(authorized_uid) /\ authorized_uid = user_id
       /\ card_type = TRAINING_CARD /\ CardKind(uid) = TRAINING_CARD
       /\ TrainingValid(uid)
       /\ authorized_uid' = uid]_vars

\* C10 witness: a trainer's session has just accepted a training card
C10_TrainingAccepted ==
  /\ pc = "cr_exit" /\ training_mode /\ TrainingValid(authorized_uid)
  /\ Trainer(user_id) /\ proxy_uid = -1

\* how many times the call e is in the log of the current card
Calls(e) == Cardinality({i \in DOMAIN call_log : call_log[i] = e})

\* C11: a valid training card read in the grace period of a trainer's session
\* resumes the session in training mode: training_mode true, authorized_uid
\* the training card's uid, user_is_trainer false, one more
\* log_access_attempt(training uid, equipment id, true) in the log; in
\* RunSession in training mode that call has been made exactly once and the
\* colour commanded is TRAINER_COLOR, purple.
C11_TrainingCardResumesSession ==
  /\ [][(pc = "cr_training" /\ pc' = "cr_exit") =>
          /\ Trainer(authorized_uid) /\ TrainingValid(uid)
          /\ card_present'
          /\ training_mode'
          /\ authorized_uid' = uid
          /\ ~user_is_trainer'
          /\ proxy_uid' = -1
          /\ call_log' = Append(call_log, <<"attempt", uid, equipment_id, TRUE>>)
          /\ power' = power]_vars
  /\ []((pc = "ar_test" /\ training_mode) =>
          /\ display = <<"color", PURPLE>> /\ color_now = PURPLE
          /\ Calls(<<"attempt", authorized_uid, equipment_id, TRUE>>) = 1
          /\ running => power)

\* C11 witness: the session runs in training mode with the power on
C11_SessionRunsInTrainingMode ==
  /\ pc = "ar_test" /\ running /\ power /\ training_mode /\ card_present
  /\ CardKind(authorized_uid) = TRAINING_CARD /\ Trainer(user_id)
  /\ display = <<"color", PURPLE>>
  /\ call_log = << <<"attempt", user_id, equipment_id, TRUE>>,
                   <<"attempt", authorized_uid, equipment_id, TRUE>> >>

\* C12: proxy use and training mode exclude each other: at no time is
\* training_mode true while proxy_uid holds a card.
C12_ProxyAndTrainingExclusive == ~(training_mode /\ proxy_uid > -1)

\* C12 witness: in a live training session a Proxy card was read in the grace
\* period and passed over
C12_ProxyCardPassedOverInTraining ==
  /\ pc = "cr_buzz" /\ running /\ power /\ training_mode
  /\ uid > -1 /\ CardKind(uid) = PROXY_CARD /\ proxy_uid = -1

\* C13: GraceTimeout is entered only from the timeout test of the session
\* loop, with timeout_period > 0 and at least timeout_period seconds gone
\* since start_time; with timeout_period = 0 the machine is never in
\* GraceTimeout or ForgottenCard.
C13_GraceTimeoutOnlyAfterTimeout ==
  /\ [][(pc' = "tg_init" /\ pc # "tg_init") =>
          /\ pc = "ar_timeout"
          /\ timeout_period > 0
          /\ since_start >= timeout_period]_vars
  /\ [](timeout_period = 0 => pc \notin GraceTimeoutPcs \cup ForgottenCardPcs)

\* C13 witness: a session with a timeout has just entered GraceTimeout
C13_GraceTimeoutEntered ==
  /\ pc = "tg_init" /\ running /\ power /\ card_present
  /\ timeout_period = MaxTimeoutMinutes * SECONDS_PER_MINUTE
  /\ since_start > timeout_period

\* C14: in GraceTimeout, after a button press, a read that finds a card
\* renews the session (back in RunSession, card_present, the power untouched
\* and on while running, start_time reset to now); a read that finds none ends
\* it: card_present false, the loop is left, run_session switches the power
\* off and then calls log_access_completion for the session's user.  Steps to
\* "cleanup" are the process ending on a signal or an exception.
C14_ButtonRenewsOrEndsSession ==
  /\ [][(pc = "tg_btn_done" /\ pc' \notin {pc, "cleanup"}) =>
          IF uid > -1
            THEN /\ pc' = "ar_read" /\ pc' \in RunSessionPcs
                 /\ card_present'
                 /\ since_start' = 0
                 /\ power' = power /\ (running => power')
            ELSE /\ pc' = "ar_exit"
                 /\ ~card_present'
                 /\ power' = power]_vars
  /\ [][(pc = "ar_exit" /\ pc' \notin {pc, "cleanup"}) => pc' = "rs_end"]_vars
  /\ [][(pc = "rs_end" /\ pc' \notin {pc, "cleanup"}) =>
          (pc' = "rs_complete" /\ ~power')]_vars
  /\ [][(pc = "rs_complete" /\ pc' \notin {pc, "cleanup"}) =>
          /\ pc' = "wa_post"
          /\ ~power /\ ~power'
          /\ call_log' = Append(call_log, <<"completion", user_id, equipment_id>>)]_vars

\* C14 witness: the button was pressed in GraceTimeout of a live session and
\* the read that follows found a card
C14_ButtonPressedWithCard ==
  /\ pc = "tg_btn_done" /\ running /\ power /\ card_present
  /\ uid > -1 /\ since_start > timeout_period

\* C15: GraceTimeout is left without a button press only when its 10 seconds
\* are over (or the process was told to stop); the power is then switched
\* off, and the card is read: if one is found the machine enters
\* ForgottenCard, where the power is off and which a running process leaves
\* only after a read that found no card; if none is found the session ends
\* directly.  Either way the session loop is left with card_present false,
\* and the power, switched on only at the start of a session, is off when
\* the machine is back in Idle.
C15_GraceTimeoutExpiry ==
  /\ [][(pc = "tg_test" /\ pc' = "tg_expired") =>
          (since_grace >= grace_seconds \/ ~running)]_vars
  /\ [][(pc = "tg_expired" /\ pc' \notin {pc, "cleanup"}) =>
          (pc' = "tg_check" /\ ~power')]_vars
  /\ [][(pc = "tg_check_done" /\ pc' \notin {pc, "cleanup"}) =>
          IF uid > -1
            THEN pc' = "fc_wipe" /\ card_present'
            ELSE pc' = "ar_exit" /\ ~card_present']_vars
  /\ [](pc \in ForgottenCardPcs => ~power)
  /\ [][(pc \in ForgottenCardPcs \ {"tg_check_done"} /\ running
          /\ pc' \notin ForgottenCardPcs \cup {"cleanup"}) =>
          (pc = "fc_test" /\ ~card_present /\ pc' = "ar_exit")]_vars
  /\ [][(pc = "fc_scan" /\ card_present /\ ~card_present') => pc' = "fc_test"]_vars
  /\ [][(~power /\ power') => pc = "rs_power"]_vars
  /\ [][(pc = "rs_complete" /\ pc' \notin {pc, "cleanup"}) =>
          (pc' \in IdlePcs /\ ~power')]_vars

\* C15 witness: the grace period expired in a live session and the card was
\* still in the reader; the machine waits for its removal with the power off
C15_WaitingForForgottenCard ==
  /\ pc = "fc_read" /\ running /\ signals = 0 /\ card_present /\ ~power
  /\ display = <<"color", RED>>

C17_UnauthorizedCardRefused ==
  /\ [][(pc \in {"wa_classify", "wa_auth"} /\ pc' \notin {pc, "cleanup"}
          /\ CardKind(uid) # SHUTDOWN_CARD
          /\ ~(CardKind(uid) = USER_CARD /\ Authorized(uid))) =>
          (pc' = "ua_log" \/ (pc = "wa_classify" /\ pc' = "wa_auth"))]_vars
  /\ [][(pc = "ua_log" /\ pc' \notin {pc, "cleanup"}) =>
          /\ pc' = "ua_flash"
          /\ call_log = <<>>
          /\ call_log' = <<<<"attempt", uid, equipment_id, FALSE>>>>
          /\ uid > -1 /\ uid' = uid]_vars
  /\ [][(pc = "ua_flash" /\ pc' \notin {pc, "cleanup"}) =>
          (pc' = "ua_test" /\ display' = <<"blink", RED>>)]_vars
  /\ [](pc \in UnauthorizedRemovalPcs => ~power)
  /\ [](pc \in UnauthorizedRemovalPcs \ {"ua_log"} =>
          (Len(call_log) = 1 /\ call_log[1][1] = "attempt" /\ ~call_log[1][4]))
  /\ [][(pc \in UnauthorizedRemovalPcs /\ running
          /\ pc' \notin UnauthorizedRemovalPcs \cup {"cleanup"}) =>
          /\ pc = "ua_scan" /\ uid' < 0
          /\ pc' \in IdlePcs
          /\ ~power'
          /\ call_log' = call_log]_vars
  /\ [][(pc = "ua_scan" /\ pc' \notin {pc, "cleanup"} /\ uid' < 0) =>
          pc' \in IdlePcs]_vars

\* C17 witness: an unauthorized User card is still in the reader, its
\* refusal logged, the red blink on and the power off
C17_WaitingForUnauthorizedCardRemoval ==
  /\ pc = "ua_test" /\ running /\ ~power /\ uid > -1
  /\ CardKind(uid) = USER_CARD /\ ~Authorized(uid)
  /\ call_log = <<<<"attempt", uid, equipment_id, FALSE>>>>
  /\ display = <<"blink", RED>>

\* positions of a session after its start was logged
LoggedSessionPcs ==
  (RunSessionPcs \ {"rs_log"}) \cup GraceRemovalPcs \cup GraceTimeoutPcs
    \cup ForgottenCardPcs \cup LeavingPcs \cup {"rs_complete"}

\* C18: run_session(uid) logs log_access_attempt(uid, equipment id, true)
\* first of all calls; until the session ends that is the only such call for
\* uid and no completion is logged; the session is left for Idle only by the
\* step that, with the power off, adds log_access_completion(uid, equipment
\* id) for the same uid, whatever authorized_uid and proxy_uid have become.
C18_SessionLoggedOnceEachEnd ==
  /\ [][(pc = "rs_log" /\ pc' \notin {pc, "cleanup"}) =>
          /\ call_log = <<>>
          /\ call_log' = <<<<"attempt", user_id, equipment_id, TRUE>>>>
          /\ user_id > -1 /\ user_id' = user_id
          /\ pc' \in LoggedSessionPcs]_vars
  /\ [](pc \in LoggedSessionPcs =>
          /\ Len(call_log) >= 1
          /\ call_log[1] = <<"attempt", user_id, equipment_id, TRUE>>
          /\ Calls(<<"attempt", user_id, equipment_id, TRUE>>) = 1
          /\ \A i \in DOMAIN call_log : call_log[i][1] # "completion")
  /\ [][(pc \in LoggedSessionPcs /\ pc' \notin LoggedSessionPcs \cup {"cleanup"}) =>
          /\ pc = "rs_complete" /\ pc' \in IdlePcs
          /\ ~power /\ ~power'
          /\ call_log' = Append(call_log, <<"completion", call_log[1][2], equipment_id>>)]_vars
  /\ [][(pc \in LoggedSessionPcs /\ pc' \in LoggedSessionPcs) => user_id' = user_id]_vars

\* C18 witness: a session that went through training mode has ended; both
\* cards were logged at their start and the completion names the user
C18_TrainingSessionCompleted ==
  /\ pc = "wa_post" /\ running /\ ~power /\ training_mode
  /\ Len(call_log) = 3
  /\ call_log[1][1] = "attempt" /\ CardKind(call_log[1][2]) = USER_CARD
  /\ call_log[2][1] = "attempt" /\ CardKind(call_log[2][2]) = TRAINING_CARD
  /\ call_log[3] = <<"completion", call_log[1][2], equipment_id>>

C20_ReadNeverReturnsZero ==
  rfid_result # <<>> =>
    LET r == rfid_result[1]
        Value(k) == rfid_attempts[k].uid[1] * 16777216 + rfid_attempts[k].uid[2] * 65536
                      + rfid_attempts[k].uid[3] * 256 + rfid_attempts[k].uid[4]
        Good(k) == /\ rfid_attempts[k].request /\ rfid_attempts[k].anticoll
                   /\ \E i \in 1..UID_BYTES : rfid_attempts[k].uid[i] # 0
    IN  /\ r # 0
        /\ r = -1 \/ r > 0
        /\ r = -1 <=> \A k \in 1..SCAN_ATTEMPTS : ~Good(k)
        /\ r > 0 =>
             \E k \in 1..SCAN_ATTEMPTS :
               /\ Good(k) /\ r = Value(k)
               /\ \A j \in 1..(k - 1) : ~Good(j)

\* C20 witness: both attempts succeeded and read an all-zero UID, and the
\* call returned -1
C20_AllZeroUidIsNoCard ==
  /\ rfid_result = <<-1>>
  /\ \A k \in 1..SCAN_ATTEMPTS :
       /\ rfid_attempts[k].request /\ rfid_attempts[k].anticoll
       /\ \A i \in 1..UID_BYTES : rfid_attempts[k].uid[i] = 0

(***************************************************************************)
(* C21: once the driver has processed a color command, every pixel holds   *)
(* the colour of the command and no wipe is active, whatever effect was    *)
(* active before; a blink or a pulse that was active stays active exactly  *)
(* when the colour is not black.  The colours then stay as long as that    *)
(* command is the last one processed and the driver has not been stopped,  *)
(* so they are what the caller finds when its drain returns.               *)
(***************************************************************************)
C21_ColorCommandFillsStrip ==
  /\ [][(led_command /\ led_link'.last.op = "color")
          => LET color == led_link'.last.color
             IN  /\ led_strip'.led_colors = Fill(color)
                 /\ ~led_strip'.is_wiping
                 /\ led_strip'.is_blinking = (led_strip.is_blinking /\ color # BLACK)
                 /\ led_strip'.is_pulsing = (led_strip.is_pulsing /\ color # BLACK)]_vars
  /\ [](led_link.last.op = "color" /\ led_link.driver # "stopped"
          => /\ led_strip.led_colors = Fill(led_link.last.color)
             /\ ~led_strip.is_wiping)

\* the drain of a color command has returned and the blink it found goes on
C21_ColorOverBlink ==
  /\ led_link.last.op = "color"
  /\ led_link.controller = "idle"
  /\ led_link.queue = <<>>
  /\ led_strip.is_blinking
  /\ led_strip.led_colors = Fill(RED)

\* what the strip shows and which effects run
Shown(strip) ==
  <<strip.led_colors, strip.brightness, strip.is_wiping, strip.is_blinking,
    strip.is_pulsing>>

(***************************************************************************)
(* C22: a wipe that runs to completion with no command in between leaves   *)
(* the strip as a color command with the same colour leaves a strip with   *)
(* no effect active: every pixel in the wipe colour at default brightness, *)
(* no wipe, blink or pulse.  While it runs, the pixel painted by a step    *)
(* is within 0..N-1 and is the pixel painted before it or the next one.    *)
(***************************************************************************)
C22_CompletedWipeIsColor ==
  [][(led_timeout /\ led_strip.is_wiping)
      => /\ led_link'.index \in 0..(LedCount - 1)
         /\ led_link'.index \in {led_link.index, led_link.index + 1}
         /\ ~led_strip'.is_wiping
              => /\ led_link.index = LedCount - 1
                 /\ Shown(led_strip') =
                      Shown(ColorCommand([NoCommand EXCEPT !.op = "color",
                                                           !.color = led_link.last.color],
                                         DotstarStrip))]_vars

\* a wipe in red has painted its last pixel and ended
C22_WipeCompleted ==
  /\ led_link.last.op = "wipe"
  /\ led_link.last.color = RED
  /\ led_link.index = LedCount - 1
  /\ led_link.driver = "test"
  /\ ~led_strip.is_wiping
  /\ led_strip.led_colors = Fill(RED)

\* the step of the loop that ends a wipe no command has interrupted
WipeEnds == led_timeout /\ led_strip.is_wiping /\ ~led_strip'.is_wiping

(***************************************************************************)
(* C23 as stated: a wipe of D ms that no command interrupts is over after  *)
(* exactly ceil(D / 100) steps of the driver loop.                         *)
(***************************************************************************)
C23_WipeTakesCeilOfDuration ==
  [][WipeEnds
      => led_link'.ticks = (led_link.last.duration + LOOP_MS - 1) \div LOOP_MS]_vars

(***************************************************************************)
(* C23 as the code has it: with w the per-pixel wait, D / N (integer       *)
(* division) rounded to the nearest 100 ms and at least 100 ms, the wipe   *)
(* paints for w * N / 100 steps and the step after those ends it.          *)
(***************************************************************************)
C23_WipeTakesWaitTimesLength ==
  [][WipeEnds
      => LET perPixel == led_link.last.duration \div LedCount
             nearest == ((perPixel + 50) \div 100) * 100
             wait == IF nearest < 100 THEN 100 ELSE nearest
         IN  /\ led_strip.wait_ms = wait
             /\ led_link'.ticks = (wait * LedCount) \div 100 + 1]_vars

\* a wipe asked to take 50 ms has ended after more than one step
C23_ShortWipeTookLonger ==
  /\ led_link.last.op = "wipe"
  /\ led_link.last.duration = 50
  /\ ~led_strip.is_wiping
  /\ led_link.index = LedCount - 1
  /\ led_link.ticks = LedCount + 1

(***************************************************************************)
(* C24: when set_display_color_wipe has returned (the join() of _receive   *)
(* is over and no later command was processed), the wipe is finished:      *)
(* no wipe is active and every pixel has the wipe colour.                  *)
(***************************************************************************)
C24_WipeFinishedAtReturn ==
  (led_link.controller = "idle" /\ led_link.last.op = "wipe"
     /\ led_link.driver # "stopped")
    => /\ ~led_strip.is_wiping
       /\ led_strip.led_colors = Fill(led_link.last.color)

(***************************************************************************)
(* C25: a failure of the LED driver never blocks the FSM: while the        *)
(* process has not exited, the main thread always has a next step, also    *)
(* when the driver process has ended.                                      *)
(***************************************************************************)
C25_DriverFailureNeverBlocks ==
  (~driver_alive /\ pc # "exited") => ENABLED Fsm

(***************************************************************************)
(* C26: a failed mail attempt on the forgotten-card path (send raised, or  *)
(* get_user gave no user to index) does not change what follows: the       *)
(* power stays off, the next step sets the display to solid RED, then the  *)
(* FSM polls until the card is gone and leaves towards Idle.  A signal is  *)
(* the only other way out.                                                 *)
(***************************************************************************)
C26_MailFailureChangesNothing ==
  /\ [](mail_error => ~power)
  /\ [][(pc = "fc_mail" /\ pc' # pc /\ signals' = signals) => pc' = "fc_red"]_vars
  /\ [][(mail_error /\ pc = "fc_red" /\ pc' # pc /\ signals' = signals)
          => (pc' = "fc_test" /\ display' = <<"color", RED>>)]_vars
  /\ [][(mail_error /\ pc = "fc_test" /\ pc' # pc /\ signals' = signals)
          => pc' = IF running /\ card_present THEN "fc_read"
                   ELSE IF card_present THEN "ar_read" ELSE "ar_exit"]_vars
  /\ [][(mail_error /\ pc \in ForgottenCardPcs /\ pc' \notin ForgottenCardPcs
           /\ signals' = signals /\ running)
          => (~card_present /\ pc' = "ar_exit")]_vars

\* the mail attempt failed and the FSM polls for the removal under solid RED
C26_WaitingAfterFailedMail ==
  /\ mail_error
  /\ pc = "fc_read" /\ running /\ card_present /\ ~power
  /\ display = <<"color", RED>>

(***************************************************************************)
(* C27: when no query raised, the call returns true exactly when a record  *)
(* exists for each flag set in the type's policy: an authorization row     *)
(* when requires_training, a payment row when requires_payment; with       *)
(* neither flag it returns true.  When a query raised it returns false.    *)
(***************************************************************************)
C27_AuthorizedIffPolicyMet ==
  auth_check.returned # <<>>
    => LET out == auth_check.returned[1]
       IN  IF out.raised THEN ~out.result
           ELSE out.result <=>
                 /\ auth_check.requires_training => auth_check.authorizations > 0
                 /\ auth_check.requires_payment => auth_check.payments > 0

\* both flags set, the user has paid but holds no authorization: refused
C27_PaidButUntrainedRefused ==
  /\ auth_check.returned = <<Returned(FALSE)>>
  /\ auth_check.requires_training /\ auth_check.requires_payment
  /\ auth_check.payments > 0 /\ auth_check.authorizations = 0
  /\ auth_check.failing = 0

\* the steps from the end of GraceRemoval to the end of the session when no
\* card was accepted
EndsSession ==
  [p \in {"cr_exit", "ar_color", "ar_test", "ar_exit", "rs_end"} |->
     CASE p = "cr_exit" -> "ar_color"
       [] p = "ar_color" -> "ar_test"
       [] p = "ar_test" -> "ar_exit"
       [] p = "ar_exit" -> "rs_end"
       [] p = "rs_end" -> "rs_complete"]

(***************************************************************************)
(* C28: in GraceRemoval the button is examined before the card in every    *)
(* iteration: the reader is only polled after a button check that found    *)
(* no press, and a press leaves the loop without a read, with no card      *)
(* accepted; from there the session ends with the power switched off,      *)
(* whatever card is on the reader.                                         *)
(***************************************************************************)
C28_ButtonExaminedBeforeCard ==
  /\ [][(pc' = "cr_read" /\ pc # "cr_read") => (pc = "cr_button" /\ ~button_event)]_vars
  /\ [][(pc = "cr_button" /\ button_event /\ pc' # pc /\ signals' = signals)
          => (pc' = "cr_exit" /\ ~card_present' /\ power' = power)]_vars
  /\ [][(pc \in DOMAIN EndsSession /\ ~card_present /\ pc' # pc /\ signals' = signals)
          => /\ pc' = EndsSession[pc]
             /\ ~card_present'
             /\ pc = "rs_end" => ~power']_vars

\* the loop was left by a press: the grace time is not over, the process
\* runs, no card was accepted, and the power is still on
C28_LeftByButtonPress ==
  /\ pc = "cr_exit"
  /\ InGrace(running, since_grace)
  /\ ~card_present
  /\ power

\* the places of the two loops that poll the button
ButtonLoopPcs ==
  {"cr_test", "cr_button", "cr_read", "cr_scan", "cr_classify", "cr_training", "cr_buzz",
   "tg_test", "tg_button"}

(***************************************************************************)
(* C29: pending button events are cleared on entry to GraceRemoval and to  *)
(* GraceTimeout: inside their loops the event flag is only ever set by a   *)
(* press made inside the loop, so a press made before cannot end or renew  *)
(* the session.  A poll clears the flag and acts on a press exactly when   *)
(* the flag was set, so a second poll with no press in between finds none. *)
(***************************************************************************)
C29_PendingPressesCleared ==
  /\ [][(pc \in {"cr_flash", "tg_init"} /\ pc' \in {"cr_test", "tg_test"})
          => ~button_event']_vars
  /\ [][(button_event' /\ pc' \in ButtonLoopPcs)
          => (pc \in ButtonLoopPcs /\ (button_event \/ pc' = pc))]_vars
  /\ [][(pc \in {"cr_button", "tg_button"} /\ pc' # pc /\ signals' = signals)
          => /\ ~button_event'
             /\ button_event <=> pc' \in {"cr_exit", "tg_btn_read"}]_vars

\* a press made while the session ran is pending when GraceRemoval clears
C29_PressPendingOnEntry ==
  /\ pc = "cr_flash"
  /\ button_event
  /\ running /\ power

\* a reader hang is detected exactly by a read that finds register 20 at
\* 0x80 when 0x83 was recorded for it, and read_RFID_card does not return
\* from then on: the main thread stays where it is, unless a signal handler
\* ends the process
HangDetectedAndKept ==
  /\ [][(hung = "no" /\ hung' # "no")
          => (pc \in DOMAIN ScanOf /\ outlist20 = ANTENNA_ON /\ outlist20' = ANTENNA_OFF)]_vars
  /\ [][(outlist20 = ANTENNA_ON /\ outlist20' = ANTENNA_OFF)
          => (hung = "no" /\ hung' # "no")]_vars
  /\ [][hung # "no"
          => \/ hung' # "no" /\ pc' = pc /\ UNCHANGED <<sessionVars, localVars, call_log>>
             \/ signals' # signals /\ pc' = "cleanup"]_vars

ActiveEffects(strip) ==
  Cardinality({f \in {"is_wiping", "is_blinking", "is_pulsing"} : strip[f]})

(***************************************************************************)
(* C32: in every reachable state of the driver at most one of is_wiping,   *)
(* is_blinking and is_pulsing is true.                                     *)
(***************************************************************************)
C32_AtMostOneEffect == ActiveEffects(led_strip) <= 1

\* a pulse command has replaced a blink or a wipe that was not yet over
C32_PulseReplacedRunningEffect ==
  /\ led_link.last.op = "pulse"
  /\ led_strip.is_pulsing
  /\ led_strip.wait_ms > 0
  /\ led_strip.effect_time < led_strip.duration

(***************************************************************************)
(* C33: every pixel's brightness is within 0..31 in every reachable state  *)
(* of the driver; while a pulse is active all pixels have one brightness   *)
(* within 3..30, each step of the loop moves it by 2 in the current        *)
(* direction, clamped to 3 and 30, and the direction is reversed exactly   *)
(* by the steps that bring it to 3 or to 30.                               *)
(***************************************************************************)
C33_BrightnessRangeAndRamp ==
  /\ [](\A i \in Pixels : led_strip.brightness[i] \in 0..31)
  /\ [](led_strip.is_pulsing
          => /\ led_strip.brightness = Fill(led_strip.brightness[1])
             /\ led_strip.brightness[1] \in 3..30)
  /\ [][(led_timeout /\ led_strip.is_pulsing /\ led_link'.driver # "crashed")
          => LET moved == led_strip.brightness[1]
                            + (IF led_strip.pulse_rising THEN 2 ELSE 0 - 2)
                 clamped == IF moved > 30 THEN 30 ELSE IF moved < 3 THEN 3 ELSE moved
             IN  /\ led_strip'.is_pulsing
                 /\ led_strip'.brightness = Fill(clamped)
                 /\ (led_strip'.pulse_rising # led_strip.pulse_rising)
                      <=> clamped \in {3, 30}]_vars

\* the pulse has come down to brightness 3 and now rises
C33_PulseTurnedAtMinimum ==
  /\ led_strip.is_pulsing
  /\ led_strip.pulse_rising
  /\ led_strip.brightness = Fill(MIN_PULSE_BRIGHTNESS)

(***************************************************************************)
(* C34: for a blink of D ms and F >= 1 flashes that no command follows,    *)
(* the half-cycle is D / (2F) (integer division) rounded to the nearest    *)
(* 100 ms and at least 100 ms; the command leaves all pixels in the colour *)
(* at minimum brightness; each step of the loop shows minimum brightness   *)
(* in the even half-cycles and maximum brightness in the odd ones, the     *)
(* colours unchanged; and the step after 2F half-cycles ends the blink.    *)
(***************************************************************************)
C34_BlinkHalfCycles ==
  /\ [][(led_command /\ led_link'.last.op = "blink" /\ led_link'.last.repeats >= 1)
          => /\ led_strip'.is_blinking
             /\ led_strip'.led_colors = Fill(led_link'.last.color)
             /\ led_strip'.brightness = Fill(3)]_vars
  /\ [][(led_timeout /\ led_strip.is_blinking /\ led_link.last.op = "blink"
            /\ led_link.last.repeats >= 1)
          => LET flashes == led_link.last.repeats
                 half == led_link.last.duration \div (2 * flashes)
                 nearest == ((half + 50) \div 100) * 100
                 wait == IF nearest < 100 THEN 100 ELSE nearest
                 elapsed == led_link.ticks * 100
             IN  /\ led_strip.wait_ms = wait
                 /\ led_strip'.led_colors = Fill(led_link.last.color)
                 /\ IF elapsed < 2 * flashes * wait
                      THEN /\ led_strip'.is_blinking
                           /\ led_strip'.brightness =
                                Fill(IF (elapsed \div wait) % 2 = 0 THEN 3 ELSE 30)
                      ELSE /\ ~led_strip'.is_blinking
                           /\ elapsed = 2 * flashes * wait]_vars

\* a blink of 400 ms with two flashes has run its four half-cycles and ended
C34_BlinkEnded ==
  /\ led_link.last.op = "blink"
  /\ led_link.last.duration = 400
  /\ led_link.last.repeats = 2
  /\ led_link.ticks = 5
  /\ ~led_strip.is_blinking
  /\ led_strip.brightness = Fill(MAX_PULSE_BRIGHTNESS)

(***************************************************************************)
(* C35: every command the controller has put on the queue is acknowledged  *)
(* by the driver: a command taken from the queue is marked done, so the    *)
(* commands not yet marked done are the commands still in the queue and    *)
(* join() can return once the queue is empty.                              *)
(***************************************************************************)
C35_EveryCommandAcknowledged == led_link.unfinished = Len(led_link.queue)

(***************************************************************************)
(* C36: once the driver process has caught SIGTERM or SIGINT, the pass of  *)
(* the loop it is in (one queue wait) is the last: it comes back to the    *)
(* loop test and leaves the loop there.  Its final state is every pixel    *)
(* dark red at brightness 3 with no wipe, blink or pulse, and after that   *)
(* state no command is processed and the strip does not change.            *)
(***************************************************************************)
C36_SignalledDriverStops ==
  /\ [][(led_link.signalled /\ led_link.driver = "wait" /\ led_link'.driver # "wait")
          => led_link'.driver = "test"]_vars
  /\ [][(led_link.signalled /\ led_link.driver = "test" /\ led_link'.driver # "test")
          => led_link'.driver = "stopped"]_vars
  /\ [](led_link.driver = "stopped"
          => /\ led_strip.led_colors = Fill(DARKRED)
             /\ led_strip.brightness = Fill(3)
             /\ ActiveEffects(led_strip) = 0)
  /\ [][led_link.driver = "stopped"
          => /\ led_strip' = led_strip
             /\ led_link'.driver = "stopped"
             /\ led_link'.last = led_link.last
             /\ led_link'.unfinished >= led_link.unfinished]_vars


\* C31: whenever the FSM is in RunSession and the LED driver has processed
\* every command sent so far, the display is solid: no pulse and no blink is
\* active in the driver and every pixel is at the default brightness, also
\* when the session was started from the pulse of Idle or resumed from the
\* blink of GraceRemoval
\* (the last call of the FSM is the colour command of the session, and the
\* driver has taken it from the queue and acknowledged it)
AllProcessed ==
  /\ display[1] = "color"
  /\ Drained /\ led_link.queue = <<>> /\ led_link.unfinished = 0

C31_RunSessionDisplaySolid ==
  (pc \in RunSessionPcs /\ AllProcessed)
     => /\ ~led_strip.is_pulsing
        /\ ~led_strip.is_blinking
        /\ led_strip.brightness = Fill(DEFAULT_BRIGHTNESS)

\* the part of C31 about a session resumed from GraceRemoval alone
C31_ResumedSessionNotBlinking ==
  (pc \in RunSessionPcs /\ AllProcessed) => ~led_strip.is_blinking


\* C37: the FSM never polls the card reader or enters Idle before the
\* directory has returned an equipment profile with a positive equipment id;
\* the Identify loop repeats get_equipment_profile until such a profile is
\* returned or running becomes false; log_started_status (called in the step
\* that stores equipment_id) is called exactly once, before the first card
\* poll; and if running becomes false first the process exits with code 1
\* without ever accepting a card
PastIdentify == pc \notin (BootPcs \cup IdentifyPcs \cup ExitPcs)

\* Identify has lost running and holds no profile
StoppedUnidentified ==
  pc \in {"id_test", "id_query", "id_done"} /\ ~running /\ 0 > profile_id

C37_ExitedUnidentified ==
  pc = "exited" /\ exit_code = 1 /\ signals = 1 /\ profile_id < 0


\* C38: whenever the FSM leaves GraceRemoval or GraceTimeout by any exit
\* (authorized card returned, proxy or training card accepted, button press,
\* timer expiry) the buzzer output is off; the buzzer is never left on while
\* the FSM is back in RunSession or in Idle.  (The beep of run_session
\* between its two set_buzzer calls, and the beeps of a reader hang, are not
\* what the claim is about.)
SessionBeepPcs == {"rs_power", "rs_log"}

C38_BuzzerOffOutsideGrace ==
  (hung = "no" /\ running /\ pc \in (RunSessionPcs \cup IdlePcs) \ SessionBeepPcs)
     => ~buzzer

\* the same for Idle alone: a session that ended in a grace period
C38_BuzzerOffInIdle ==
  (hung = "no" /\ running /\ pc \in {"wa_post", "wa_test", "wa_read", "wa_scan"})
     => ~buzzer


\* C39: once the signal handler has run exit() (equipment power set OFF and
\* running set to false), set_equipment_power_on(True) is never executed
\* afterwards, wherever the FSM stood when the signal was delivered
C39_NoPowerOnAfterExit ==
  [][(0 < signals /\ ~running) => ~(~power /\ power')]_vars


\* C40: training cannot be chained.  Within one session (from the start of
\* run_session to its end) training mode is entered at most once and
\* authorized_uid changes at most once, to the uid of the training card;
\* after training mode has started no card other than that training card
\* resumes the session from GraceRemoval; and a trainer whose session has
\* accepted a proxy card can no longer start training mode in that session
C40_TrainingNotChained ==
  \* training mode starts in wait_for_user_card_return only, for the card
  \* just read, in a session of a trainer that is not yet in training mode
  \* and holds no proxy; authorized_uid becomes that card
  /\ [][~training_mode /\ training_mode'
          => /\ pc = "cr_training"
             /\ user_is_trainer /\ ~user_is_trainer'
             /\ proxy_uid = -1
             /\ authorized_uid = user_id
             /\ authorized_uid' = uid /\ uid # user_id]_vars
  \* and it ends only where run_session begins
  /\ [][training_mode /\ ~training_mode' => pc = "rs_init"]_vars
  \* authorized_uid is set where run_session begins and ends, and in between
  \* only by the start of training mode
  /\ [][authorized_uid' # authorized_uid
          => \/ pc \in {"rs_init", "rs_complete"}
             \/ ~training_mode /\ training_mode']_vars
  \* in training mode the card that resumes the session from GraceRemoval is
  \* the training card, and no proxy is taken
  /\ [][training_mode /\ pc \in GraceRemovalPcs /\ ~card_present /\ card_present'
          => uid' = authorized_uid /\ authorized_uid' = authorized_uid]_vars
  /\ [](training_mode => proxy_uid = -1)
  \* accepting a proxy card ends the trainer's right for the session
  /\ [][proxy_uid' # proxy_uid /\ -1 < proxy_uid' => ~user_is_trainer']_vars
  /\ [][~user_is_trainer /\ user_is_trainer' => pc = "rs_trainer"]_vars

\* in training mode another card was read in GraceRemoval and passed over
C40_OtherCardInTraining ==
  /\ pc = "cr_buzz" /\ training_mode
  /\ -1 < uid /\ uid # authorized_uid

\* a trainer's session took a proxy card and then read a training card
C40_TrainingCardAfterProxy ==
  /\ pc = "cr_buzz" /\ ~training_mode /\ Trainer(user_id)
  /\ CardKind(uid) = TRAINING_CARD /\ card_type = TRAINING_CARD /\ ~user_is_trainer

====
